---- MODULE Spec2Model ----
(***************************************************************************)
(* A model of saffron-lang's cooperative task scheduler                    *)
(* (src/libc/async.c), of its parser (src/ast/astparse.c: error handling,  *)
(* the expression grammar, calls, pipes and interface bodies) and of the   *)
(* subtype relation and the diagnostics of its type checker (src/types.c). *)
(*                                                                         *)
(* Specifications.  Spec and LiveSpec run the scheduler; ParseSpec runs    *)
(* parseAST on every short source over a small alphabet, GrammarSpec on    *)
(* families of generated sources; CheckSpec runs evaluateTypes on short    *)
(* programs of var declarations; SubTypeSpec asks isSubType about every    *)
(* pair of descriptors of a family of heaps; ClassSpec checks the body of  *)
(* a class member by member, ImportSpec follows the imports of a small     *)
(* file system through parseFile, CallSpec checks calls of generic         *)
(* functions.  Each one holds the variables of the other parts at their    *)
(* initial values.                                                         *)
(*                                                                         *)
(* Parser operators take the parser's state p and give the state after the *)
(* call; a local operator such as Operand(p1) names what a function does   *)
(* with the state a callee has left.                                       *)
(*                                                                         *)
(* Numbers.  The VM's Value numbers are doubles.  A number of the model is *)
(* an integer count of halves: the model's v stands for the double v/2, so *)
(* that trunc() is a real conversion (Trunc below).  The clock counts the  *)
(* same half units, so "getTime() + time" is plain addition.               *)
(***************************************************************************)
EXTENDS Integers, Sequences, FiniteSets, TLC

\* ------------------------------------------------------------------ bounds
MaxFrames == 3      \* frames ever allocated (the main frame and the spawned ones)
MaxTime == 2        \* the clock stops advancing here
MaxSleep == 1       \* largest d of a yielded [1, d]
MaxFd == 0          \* largest file descriptor
MaxOp == 9          \* largest first element of a yielded list (halves: 4.5)
MaxTokens == 4      \* longest source, in tokens before TOKEN_EOF
MaxOperands == 3    \* most operands of a generated expression statement
MaxPipeArgs == 3    \* most arguments of the call after a pipe
MaxArgs == 257      \* most arguments of a generated call, up to the wrap-around
MaxBodyTokens == 3  \* longest generated interface body, in tokens
MaxHeaderTokens == 4  \* most tokens between "extends" and '{' of a generated interface
MaxStatements == 2  \* longest program given to the type checker, in declarations

\* -------------------------------------------------------- program constants
SLEEP == 1
WAIT_IO_READ == 2
WAIT_IO_WRITE == 4

\* Precedence
PREC_NONE == 0
PREC_ASSIGNMENT == 1
PREC_TERM == 7
PREC_YIELD == 2
PREC_OR == 3
PREC_AND == 4
PREC_FACTOR == 8
PREC_UNARY == 9
PREC_CALL == 10

Frames == 1..MaxFrames
Fds == 0..MaxFd

VARIABLES
    tasks,          \* vm.tasks: the ready queue, a sequence of frames
    currentTask,    \* vm.currentTask: 0-based index into vm.tasks
    sleepers,       \* asyncHandler.sleepers
    sleeper_times,  \* asyncHandler.sleeper_times (parallel to sleepers)
    readers,        \* asyncHandler.readers
    reader_fds,     \* asyncHandler.reader_fds (parallel to readers)
    writers,        \* asyncHandler.writers
    writer_fds,     \* asyncHandler.writer_fds (parallel to writers)
    stored,         \* frame->stored of every frame: "nil" or "true"
    nframes,        \* number of frames allocated so far
    now,            \* getTime()
    fault,          \* "none", or the signal that ended the process
    lastError,      \* the runtimeError message of the last call, or "none"
    ahead,          \* history: per woken frame, the frames that waited before it
    sleepUntil      \* history: per frame, now + d of its last [1, d] yield

VARIABLES
    source,         \* the tokens the scanner produces, without the final TOKEN_EOF
    parser,         \* the Parser record (and the history of its diagnostics)
    statements,     \* the StmtArray parseAST fills
    pc,             \* where parseAST is: "idle", "loop" or "done"
    result          \* what parseAST returned

parseVars == <<source, parser, statements, pc, result>>

VARIABLES
    heap,           \* the type descriptors, by address
    checker,        \* the type checker's flags, diagnostics and resolution tables
    query,          \* the last call of isSubType from outside and what it returned
    program,        \* the statements handed to evaluateTypes
    stmt            \* how many of them evaluateTypes has evaluated

typeVars == <<heap, checker, query, program, stmt>>

schedVars == <<tasks, currentTask, sleepers, sleeper_times, readers, reader_fds,
               writers, writer_fds, stored, nframes, now, fault, lastError,
               ahead, sleepUntil>>

\* ------------------------------------------------------------- helpers
Range(s) == {s[i] : i \in 1..Len(s)}

\* trunc() of a double, on the halves representation (non-negative numbers)
Trunc(v) == v \div 2

\* writeValueArray(array, value): append at the end
WriteValueArray(array, value) == Append(array, value)

\* popValueArray(array, index): remove the element at 0-based index, closing the gap
PopValueArray(array, index) ==
    [i \in 1..(Len(array) - 1) |-> IF i <= index THEN array[i] ELSE array[i + 1]]

\* currentFrame: the frame the VM is running, vm.tasks[vm.currentTask]
CurrentFrame == tasks[currentTask + 1]

NoError == <<>>

NilValue == [kind |-> "nil", op |-> 0, arg |-> 0]
ListValue(o, a) == [kind |-> "list", op |-> o, arg |-> a]

\* the second elements tried with first element o: a duration for a sleep, a
\* descriptor (a whole number) for a wait, and one value otherwise
ArgsFor(o) ==
    IF Trunc(o) = SLEEP THEN 0..MaxSleep
    ELSE IF Trunc(o) \in {WAIT_IO_READ, WAIT_IO_WRITE} THEN {2 * fd : fd \in Fds}
    ELSE {0}

YieldValues == {NilValue} \cup UNION {{ListValue(o, a) : a \in ArgsFor(o)} : o \in 0..MaxOp}

\* The scheduler's state as one record, for the handlers below.
Sched == [tasks |-> tasks, currentTask |-> currentTask,
          sleepers |-> sleepers, sleeper_times |-> sleeper_times,
          readers |-> readers, reader_fds |-> reader_fds,
          writers |-> writers, writer_fds |-> writer_fds,
          stored |-> stored, error |-> NoError, pumped |-> FALSE, divZero |-> FALSE]

\* the descriptors a pump during the yield of value would watch
Watched(fds, value, op) ==
    {Trunc(fds[i]) : i \in 1..Len(fds)}
        \cup (IF value.kind = "list" /\ Trunc(value.op) = op THEN {Trunc(value.arg)} ELSE {})

\* What a call finds outside the program: the clock's reading and, of the
\* descriptors it may watch, those select() would report ready.
Envs(value) ==
    [time : {now},
     readable : SUBSET Watched(reader_fds, value, WAIT_IO_READ),
     writable : SUBSET Watched(writer_fds, value, WAIT_IO_WRITE)]

\* ------------------------------------------------------------- getTasks
\* a sleeper loop that wakes a sleeper one clock unit early
SleeperDueEarly(wakeTime, t) == wakeTime <= t + 1

\* the test of the sleeper loop: the recorded wake time has passed
SleeperDue(wakeTime, t) == wakeTime < t

RECURSIVE SleeperLoop(_, _, _)
SleeperLoop(st, i, t) ==
    IF i >= Len(st.sleepers) THEN st
    ELSE IF SleeperDue(st.sleeper_times[i + 1], t)
         THEN LET sleeper == st.sleepers[i + 1]
              IN  SleeperLoop([st EXCEPT
                      !.sleeper_times = PopValueArray(@, i),
                      !.stored = [@ EXCEPT ![sleeper] = "true"],
                      !.tasks = WriteValueArray(@, sleeper),
                      !.sleepers = PopValueArray(@, i)], i, t)
         ELSE SleeperLoop(st, i + 1, t)

RECURSIVE ReaderLoop(_, _, _)
ReaderLoop(st, i, infd) ==
    IF i >= Len(st.readers) THEN st
    ELSE IF Trunc(st.reader_fds[i + 1]) \in infd
         THEN LET reader == st.readers[i + 1]
              IN  ReaderLoop([st EXCEPT
                      !.reader_fds = PopValueArray(@, i),
                      !.stored = [@ EXCEPT ![reader] = "true"],
                      !.tasks = WriteValueArray(@, reader),
                      !.readers = PopValueArray(@, i)], i, infd)
         ELSE ReaderLoop(st, i + 1, infd)

RECURSIVE WriterLoop(_, _, _)
WriterLoop(st, i, outfd) ==
    IF i >= Len(st.writers) THEN st
    ELSE IF Trunc(st.writer_fds[i + 1]) \in outfd
         THEN LET writer == st.writers[i + 1]
              IN  WriterLoop([st EXCEPT
                      !.writer_fds = PopValueArray(@, i),
                      !.stored = [@ EXCEPT ![writer] = "true"],
                      !.tasks = WriteValueArray(@, writer),
                      !.writers = PopValueArray(@, i)], i, outfd)
         ELSE WriterLoop(st, i + 1, outfd)

\* select(): the watched descriptors that are ready, as left in infd and outfd
SelectIn(st, env) ==
    {Trunc(st.reader_fds[i]) : i \in 1..Len(st.reader_fds)} \cap env.readable
SelectOut(st, env) ==
    {Trunc(st.writer_fds[i]) : i \in 1..Len(st.writer_fds)} \cap env.writable

\* the early return of getTasks
NothingToPump(st) == Len(st.sleepers) = 0

\* getTasks()
GetTasks(st0, env) ==
    LET st == [st0 EXCEPT !.pumped = TRUE]
    IN  IF NothingToPump(st) THEN st
        ELSE LET s1 == SleeperLoop(st, 0, env.time)
                 infd == SelectIn(s1, env)
                 outfd == SelectOut(s1, env)
                 readStatus == Cardinality(infd) + Cardinality(outfd)
             IN  IF readStatus = 0 THEN s1
                 ELSE WriterLoop(ReaderLoop(s1, 0, infd), 0, outfd)

\* --------------------------------------------------- handle_yield_value
\* "vm.currentTask = x % vm.tasks.count".  With count = 0 the division is
\* undefined: the record only notes it, and the action takes every outcome.
ModCount(st, x) ==
    IF Len(st.tasks) = 0
    THEN [st EXCEPT !.divZero = TRUE]
    ELSE [st EXCEPT !.currentTask = x % Len(st.tasks)]

\* the pump is called when the index has run past the end of the ready queue
PastEnd(index, count) == index >= count

\* a tail that leaves the suspended frame in the ready queue
PopAndPickNextKeepsFrame(st, env) ==
    LET pumped == IF PastEnd(st.currentTask + 1, Len(st.tasks))
                  THEN GetTasks(st, env) ELSE st
    IN  ModCount(pumped, pumped.currentTask + 1)

\* the tail shared by the three suspending cases: lines 74-78, 91-95, 108-112
PopAndPickNext(st, env) ==
    LET popped == [st EXCEPT !.tasks = PopValueArray(@, st.currentTask)]
        pumped == IF PastEnd(popped.currentTask, Len(popped.tasks))
                  THEN GetTasks(popped, env) ELSE popped
    IN  ModCount(pumped, pumped.currentTask)

\* a non-list yield that skips a frame
SuccessorSkips(index) == index + 2

\* the index a non-list yield moves on to, before the modulo
Successor(index) == index + 1

\* the non-list case: lines 121-124
AdvanceToNext(st, env) ==
    LET pumped == IF PastEnd(Successor(st.currentTask), Len(st.tasks))
                  THEN GetTasks(st, env) ELSE st
    IN  ModCount(pumped, Successor(pumped.currentTask))

\* a default case that reports the error and then moves on like a non-list yield
InvalidOpMovesOn(st, op) ==
    [st EXCEPT !.error = <<"Invalid yield op", op>>,
               !.currentTask = (@ + 1) % Len(st.tasks)]

\* the default case: runtimeError("Invalid yield op %d", op); return
InvalidOp(st, op) == [st EXCEPT !.error = <<"Invalid yield op", op>>]

\* handle_yield_value(value), called while frame cur runs
HandleYieldValue(st, cur, value, env) ==
    IF value.kind = "list"
    THEN LET op == Trunc(value.op)
         IN  CASE op = SLEEP ->
                    PopAndPickNext([st EXCEPT
                        !.sleepers = WriteValueArray(@, cur),
                        !.sleeper_times = WriteValueArray(@, env.time + value.arg)], env)
               [] op = WAIT_IO_READ ->
                    PopAndPickNext([st EXCEPT
                        !.readers = WriteValueArray(@, cur),
                        !.reader_fds = WriteValueArray(@, value.arg)], env)
               [] op = WAIT_IO_WRITE ->
                    PopAndPickNext([st EXCEPT
                        !.writers = WriteValueArray(@, cur),
                        !.writer_fds = WriteValueArray(@, value.arg)], env)
               [] OTHER -> InvalidOp(st, op)
    ELSE AdvanceToNext(st, env)


\* ------------------------------------------------------------------ parser
\* The token types the modelled sources are written in.  "err" is TOKEN_ERROR.
\* The parse functions below are the paths of astparse.c these tokens can take;
\* a branch that asks for a token outside the alphabet is never taken.
TokenAlphabet == {"var", "id", "=", "num", ";", "+", "err"}

Sources == UNION {[1..n -> TokenAlphabet] : n \in 0..MaxTokens}

\* A node of the tree: its NodeType, the position of the token it keeps (a name,
\* an operator, its first token) and its children.  NullNode is the NULL pointer.
Node(type, tok, kids) == [type |-> type, tok |-> tok, kids |-> kids]
NullNode == Node("NULL", 0, <<>>)

\* Identifiers that are told apart by their characters; the token "id" is an
\* identifier whose characters do not matter.
Names == {"A", "B"}

\* The type of the token at a position.  The scanner hands out the tokens of the
\* source in order and TOKEN_EOF, at position Len(source) + 1, from then on.
TokenAt(i) == IF i >= 1 /\ i <= Len(source)
              THEN (IF source[i] \in Names THEN "id" ELSE source[i])
              ELSE IF i = 0 THEN "none" ELSE "EOF"

\* the characters of the token at a position
Lexeme(i) == IF i >= 1 /\ i <= Len(source) THEN source[i] ELSE ""

\* identifiersEqual(a, b)
IdentifiersEqual(a, b) == Lexeme(a) = Lexeme(b)

\* scanToken(): the position of the token after the one at position i
ScanToken(i) == IF i > Len(source) THEN i ELSE i + 1

\* The Parser after parseAST's two resets.  cur and prev are the positions of
\* parser.current and parser.previous; diags is what went to stderr; node is the
\* value the last parse function returned.  History: decl counts the calls of
\* declaration() that have returned, panicDecl is that count when a diagnostic
\* set panic mode, lateDrops counts the errors dropped after a later return.
NewParser ==
    [cur |-> 0, prev |-> 0, hadError |-> FALSE, panicMode |-> FALSE,
     diags |-> <<>>, node |-> NullNode, decl |-> 0, panicDecl |-> 0, lateDrops |-> 0,
     halt |-> "none"]

\* an errorAt that prints the diagnostic but leaves hadError as it was
ErrorAtKeepsFlag(p, tok, message) ==
    IF p.panicMode THEN p
    ELSE [p EXCEPT !.panicMode = TRUE, !.diags = Append(@, <<tok, message>>)]

\* errorAt(token, message)
ErrorAt(p, tok, message) ==
    IF p.panicMode
    THEN [p EXCEPT !.lateDrops = IF p.decl > p.panicDecl THEN @ + 1 ELSE @]
    ELSE [p EXCEPT !.panicMode = TRUE,
                   !.diags = Append(@, <<tok, message>>),
                   !.hadError = TRUE,
                   !.panicDecl = p.decl]

\* error(message): at parser.previous
Error(p, message) == ErrorAt(p, p.prev, message)

\* errorAtCurrent(message): at parser.current
ErrorAtCurrent(p, message) == ErrorAt(p, p.cur, message)

\* the loop of advance(): scan until a token that is not TOKEN_ERROR, reporting
\* every TOKEN_ERROR with the scanner's message
RECURSIVE ScanLoop(_)
ScanLoop(p) ==
    LET p1 == [p EXCEPT !.cur = ScanToken(p.cur)]
    IN  IF TokenAt(p1.cur) # "err" THEN p1
        ELSE ScanLoop(ErrorAtCurrent(p1, "scan error"))

\* advance()
Advance(p) == ScanLoop([p EXCEPT !.prev = p.cur])

\* check(type)
Check(p, type) == TokenAt(p.cur) = type

\* consume(type, message)
Consume(p, type, message) ==
    IF Check(p, type) THEN Advance(p) ELSE ErrorAtCurrent(p, message)

\* match(type): the parser after the call; the call returns Check(p, type)
Match(p, type) == IF Check(p, type) THEN Advance(p) ELSE p

\* parseRules[type], for the token types of the alphabet
GetRule(type) ==
    CASE type = "id"  -> [prefix |-> "variable", infix |-> "none", precedence |-> PREC_NONE]
      [] type = "num" -> [prefix |-> "number", infix |-> "none", precedence |-> PREC_NONE]
      [] type = "+"   -> [prefix |-> "none", infix |-> "binary", precedence |-> PREC_TERM]
      [] type = "-"   -> [prefix |-> "unary", infix |-> "binary", precedence |-> PREC_TERM]
      [] type = "*"   -> [prefix |-> "none", infix |-> "binary", precedence |-> PREC_FACTOR]
      [] type = "!"   -> [prefix |-> "unary", infix |-> "none", precedence |-> PREC_NONE]
      [] type = "and" -> [prefix |-> "none", infix |-> "and_", precedence |-> PREC_AND]
      [] type = "or"  -> [prefix |-> "none", infix |-> "or_", precedence |-> PREC_OR]
      [] type = "."   -> [prefix |-> "none", infix |-> "dot", precedence |-> PREC_CALL]
      [] type = "("   -> [prefix |-> "grouping", infix |-> "call", precedence |-> PREC_CALL]
      [] type = "|"   -> [prefix |-> "none", infix |-> "pipeCall", precedence |-> PREC_YIELD]
      [] OTHER        -> [prefix |-> "none", infix |-> "none", precedence |-> PREC_NONE]

RECURSIVE ParsePrecedence(_, _)
RECURSIVE InfixLoop(_, _, _)

\* expression(): no modelled source has "fun" where an expression starts, so
\* parsePrecedence(PREC_ASSIGNMENT)
Expression(p) == ParsePrecedence(p, PREC_ASSIGNMENT)

\* number(canAssign)
Number(p, canAssign) == [p EXCEPT !.node = Node("Literal", p.prev, <<>>)]

\* variable(canAssign)
Variable(p, canAssign) ==
    LET name == p.prev
        Assigned(p1) == [p1 EXCEPT !.node = Node("Assign", name, <<p1.node>>)]
    IN  IF canAssign /\ Check(p, "=")
        THEN Assigned(Expression(Match(p, "=")))
        ELSE [p EXCEPT !.node = Node("Variable", name, <<>>)]

\* unary(canAssign)
Unary(p, canAssign) ==
    LET operator == p.prev
        Operand(p1) == [p1 EXCEPT !.node = Node("Unary", operator, <<p1.node>>)]
    IN  Operand(ParsePrecedence(p, PREC_UNARY))

\* grouping(canAssign)
Grouping(p, canAssign) ==
    LET Closed(p1) ==
            [Consume(p1, ")", "Expect ')' after expression.") EXCEPT !.node = p1.node]
    IN  Closed(Expression(p))

\* a binary that parses its right operand at the operator's own level
BinaryRightAssociative(p, left, canAssign) ==
    LET operator == p.prev
        rule == GetRule(TokenAt(operator))
        Operand(p1) == [p1 EXCEPT !.node = Node("Binary", operator, <<left, p1.node>>)]
    IN  Operand(ParsePrecedence(p, rule.precedence))

\* binary(left, canAssign)
Binary(p, left, canAssign) ==
    LET operator == p.prev
        rule == GetRule(TokenAt(operator))
        Operand(p1) == [p1 EXCEPT !.node = Node("Binary", operator, <<left, p1.node>>)]
    IN  Operand(ParsePrecedence(p, rule.precedence + 1))

\* and_(left, canAssign)
And_(p, left, canAssign) ==
    LET operator == p.prev
        Operand(p1) == [p1 EXCEPT !.node = Node("Binary", operator, <<left, p1.node>>)]
    IN  Operand(ParsePrecedence(p, PREC_AND))

\* or_(left, canAssign)
Or_(p, left, canAssign) ==
    LET operator == p.prev
        Operand(p1) == [p1 EXCEPT !.node = Node("Binary", operator, <<left, p1.node>>)]
    IN  Operand(ParsePrecedence(p, PREC_OR))

\* writeExprArray(array, expr)
WriteExprArray(array, expr) == Append(array, expr)

\* a round of the loop that counts the argument before it tests the count
ArgumentRoundCountsFirst(st) ==
    LET argCount1 == (st.argCount + 1) % 256
        Written(p1, p2) ==
            [p |-> Match(p2, ","), items |-> WriteExprArray(st.items, p1.node),
             argCount |-> argCount1, done |-> ~Check(p2, ",")]
        Counted(p1) ==
            Written(p1, IF argCount1 = 255
                        THEN Error(p1, "Can't have more than 255 arguments.")
                        ELSE p1)
    IN  IF st.done THEN st
        ELSE IF Check(st.p, ")") THEN [st EXCEPT !.done = TRUE]
        ELSE Counted(Expression(st.p))

\* One round of the do-while loop of argumentList(), argCount being a uint8_t;
\* done says that the loop has been left.
ArgumentRound(st) ==
    LET Written(p1, p2) ==
            [p |-> Match(p2, ","), items |-> WriteExprArray(st.items, p1.node),
             argCount |-> (st.argCount + 1) % 256, done |-> ~Check(p2, ",")]
        Counted(p1) ==
            Written(p1, IF st.argCount = 255
                        THEN Error(p1, "Can't have more than 255 arguments.")
                        ELSE p1)
    IN  IF st.done THEN st
        ELSE IF Check(st.p, ")") THEN [st EXCEPT !.done = TRUE]
        ELSE Counted(Expression(st.p))

\* k rounds of the loop, one after the other
RECURSIVE ArgumentRounds(_, _)
ArgumentRounds(st, k) ==
    LET Rest(half) == IF half.done THEN half ELSE ArgumentRounds(half, k - k \div 2)
    IN  IF k = 0 THEN st
        ELSE IF k = 1 THEN ArgumentRound(st)
        ELSE Rest(ArgumentRounds(st, k \div 2))

\* The do-while loop of argumentList().  Every round takes at least one token,
\* so the loop is left within as many rounds as the source has tokens.
ArgumentLoop(p) ==
    ArgumentRounds([p |-> p, items |-> <<>>, argCount |-> 0, done |-> FALSE],
                   Len(source) + 1)

\* argumentList(): the parser after it and the arguments
ArgumentList(p) ==
    LET Closed(r) ==
            [p |-> Consume(r.p, ")", "Expect ')' after arguments."), items |-> r.items]
    IN  Closed(IF ~Check(p, ")") THEN ArgumentLoop(p) ELSE [p |-> p, items |-> <<>>])

\* call(left, canAssign): the callee is the first child, the arguments follow
Call(p, left, canAssign) ==
    LET paren == p.prev
        Made(r) == [r.p EXCEPT !.node = Node("Call", paren, <<left>> \o r.items)]
    IN  Made(ArgumentList(p))

\* the for loop of pipeCall: exprs[i + 1] = exprs[i] for i from 0 upwards
RECURSIVE ShiftLoop(_, _)
ShiftLoop(exprs, i) ==
    IF i >= Len(exprs) - 1 THEN exprs
    ELSE ShiftLoop([exprs EXCEPT ![i + 2] = exprs[i + 1]], i + 1)

\* pipeCall(left, canAssign)
PipeCall(p, left, canAssign) ==
    LET Piped(p1) ==
            LET call == p1.node
                arguments == WriteExprArray(SubSeq(call.kids, 2, Len(call.kids)), NullNode)
                shifted == [ShiftLoop(arguments, 0) EXCEPT ![1] = left]
            IN  IF call = NullNode THEN [p1 EXCEPT !.halt = "SIGSEGV"]
                ELSE IF call.type # "Call"
                THEN [ErrorAtCurrent(p1, "Expected functional call after pipe operator!")
                         EXCEPT !.node = NullNode]
                ELSE [p1 EXCEPT !.node = Node("Call", call.tok, <<call.kids[1]>> \o shifted)]
    IN  Piped(ParsePrecedence(p, PREC_CALL))

\* dot(left, canAssign)
Dot(p, left, canAssign) ==
    LET Property(p1) ==
            LET name == p1.prev
                Assigned(p2) == [p2 EXCEPT !.node = Node("Set", name, <<left, p2.node>>)]
            IN  IF Check(p1, "=")
                THEN Assigned(Expression(Match(p1, "=")))
                ELSE [p1 EXCEPT !.node = Node("Get", name, <<left>>)]
    IN  Property(Consume(p, "id", "Expect property name after '.'."))

\* the call through a prefix rule
PrefixRule(fn, p, canAssign) ==
    CASE fn = "variable" -> Variable(p, canAssign)
      [] fn = "number" -> Number(p, canAssign)
      [] fn = "unary" -> Unary(p, canAssign)
      [] fn = "grouping" -> Grouping(p, canAssign)

\* the call through an infix rule
InfixRule(fn, p, left, canAssign) ==
    CASE fn = "binary" -> Binary(p, left, canAssign)
      [] fn = "and_" -> And_(p, left, canAssign)
      [] fn = "or_" -> Or_(p, left, canAssign)
      [] fn = "dot" -> Dot(p, left, canAssign)
      [] fn = "call" -> Call(p, left, canAssign)
      [] fn = "pipeCall" -> PipeCall(p, left, canAssign)

\* the while loop of parsePrecedence
InfixLoop(p, precedence, canAssign) ==
    LET Advanced(p1) ==
            InfixLoop(InfixRule(GetRule(TokenAt(p1.prev)).infix, p1, p.node, canAssign),
                      precedence, canAssign)
    IN  IF precedence <= GetRule(TokenAt(p.cur)).precedence
        THEN Advanced(Advance(p))
        ELSE p

\* parsePrecedence(precedence)
ParsePrecedence(p, precedence) ==
    LET canAssign == precedence <= PREC_ASSIGNMENT
        Checked(p2) ==
            IF canAssign /\ Check(p2, "=")
            THEN [Error(Match(p2, "="), "Invalid assignment target.")
                     EXCEPT !.node = p2.node]
            ELSE p2
        Advanced(p1) ==
            LET prefixRule == GetRule(TokenAt(p1.prev)).prefix
            IN  IF prefixRule = "none"
                THEN [Error(p1, "Expect expression.") EXCEPT !.node = NullNode]
                ELSE Checked(InfixLoop(PrefixRule(prefixRule, p1, canAssign),
                                       precedence, canAssign))
    IN  Advanced(Advance(p))

\* expressionStatement()
ExpressionStatement(p) ==
    LET first == p.cur
        Ended(p1) == [Match(p1, ";") EXCEPT !.node = Node("Expression", first, <<p1.node>>)]
    IN  Ended(Expression(p))

\* while (match(TOKEN_SEMICOLON));
RECURSIVE SkipSemicolons(_)
SkipSemicolons(p) == IF Check(p, ";") THEN SkipSemicolons(Match(p, ";")) ELSE p

\* statement(): no modelled source has one of its keywords where a statement
\* starts, so expressionStatement()
Statement(p) == SkipSemicolons(ExpressionStatement(p))

\* parseVariable(errorMessage): the name is the parser's previous token after it
ParseVariable(p, errorMessage) == Consume(p, "id", errorMessage)

\* varDeclaration(assignmentType): the source has no ':', so no type annotation
VarDeclaration(p) ==
    LET Named(p1) ==
            LET name == p1.prev
                Initialized(p2) ==
                    LET value == p2.node
                    IN  IF value = NullNode
                        THEN [ErrorAtCurrent(p2, "Var without initializer must provide a type!")
                                 EXCEPT !.node = NullNode]
                        ELSE [Match(p2, ";") EXCEPT !.node = Node("Var", name, <<value>>)]
            IN  Initialized(IF Check(p1, "=") THEN Expression(Match(p1, "="))
                            ELSE [p1 EXCEPT !.node = NullNode])
    IN  Named(ParseVariable(p, "Expect variable name."))

\* synchronize(): declaration() holds its only call, after the returns of every
\* branch, so no run reaches it
RECURSIVE SynchronizeLoop(_)
SynchronizeLoop(p) ==
    IF TokenAt(p.cur) = "EOF" \/ TokenAt(p.prev) = ";" \/ TokenAt(p.cur) = "var"
    THEN p
    ELSE SynchronizeLoop(Advance(p))

Synchronize(p) == SynchronizeLoop([p EXCEPT !.panicMode = FALSE])

\* the do-while loop of methodSignature() over the parameters
RECURSIVE ParameterLoop(_, _, _)
ParameterLoop(p, params, argCount) ==
    LET argCount1 == argCount + 1
        Named(p2) ==
            LET params1 == Append(params, Node("Positional", p2.prev, <<>>))
            IN  IF Check(p2, ",") THEN ParameterLoop(Match(p2, ","), params1, argCount1)
                ELSE [p |-> p2, items |-> params1]
    IN  Named(ParseVariable(IF argCount1 > 255
                            THEN ErrorAtCurrent(p, "Can't have more than 255 parameters.")
                            ELSE p,
                            "Expect parameter name."))

\* methodSignature(): the sources have no '<' and no ':'
MethodSignature(p) ==
    LET Named(p2) ==
            LET name == p2.prev
                Closed(r) ==
                    [Consume(r.p, ")", "Expect ')' after parameters.")
                        EXCEPT !.node = Node("MethodSig", name, r.items)]
                Opened(p3) ==
                    Closed(IF ~Check(p3, ")") THEN ParameterLoop(p3, <<>>, 0)
                           ELSE [p |-> p3, items |-> <<>>])
            IN  Opened(Consume(p2, "(", "Expect '(' after function name."))
    IN  Named(Consume(Consume(p, "fun", "Expect 'fun' in interface body."),
                      "id", "Expect method name."))

\* what the next round of a loop depends on
LoopState(p) == <<p.cur, p.prev, p.panicMode, p.hadError>>

\* The while loop over the body of interfaceDeclaration().  A round that leaves
\* the parser as it found it is followed by the same round again, for ever:
\* halt records it.
RECURSIVE InterfaceBodyLoop(_, _)
InterfaceBodyLoop(p, body) ==
    LET Round(p1) ==
            IF LoopState(p1) = LoopState(p)
            THEN [p |-> [p1 EXCEPT !.halt = "hang"], items |-> body]
            ELSE InterfaceBodyLoop(p1, Append(body, p1.node))
    IN  IF Check(p, "}") \/ Check(p, "EOF") THEN [p |-> p, items |-> body]
        ELSE Round(IF Check(p, "var") THEN VarDeclaration(Match(p, "var"))
                   ELSE MethodSignature(p))

\* typeAnnotation(): the sources have no '<', no '(' and no '|' where a type is
\* expected, so a simple type or the error
TypeAnnotation(p) ==
    IF Check(p, "id")
    THEN LET Named(p1) == [p1 EXCEPT !.node = Node("Simple", p1.prev, <<>>)]
         IN  Named(Match(p, "id"))
    ELSE [Error(p, "Expect identifier or functor type.") EXCEPT !.node = NullNode]

\* fieldDeclaration(assignmentType): a Var node without initializer, its type
\* the second child
FieldDeclaration(p) ==
    LET Named(p1) ==
            LET name == p1.prev
                Typed(p2) ==
                    [Match(p2, ";") EXCEPT !.node = Node("Var", name, <<NullNode, p2.node>>)]
            IN  Typed(TypeAnnotation(Consume(p1, ":", "Expect type annotation")))
    IN  Named(ParseVariable(p, "Expect variable name."))

\* the "extends" clause of interfaceDeclaration(), after match(TOKEN_EXTENDS)
ExtendsClause(p, interfaceName) ==
    LET Declared(p1) ==
            [(IF IdentifiersEqual(interfaceName, p1.prev)
              THEN Error(p1, "An interface can't extend from itself.")
              ELSE p1) EXCEPT !.node = p1.node]
    IN  Declared(FieldDeclaration(Consume(p, "id", "Expect superclass name.")))

\* interfaceDeclaration(): the sources have no '<'.  The super type is the
\* first child of the node (NullNode without "extends"), the body follows.
InterfaceDeclaration(p) ==
    LET Named(p1) ==
            LET name == p1.prev
                Closed(superType, r) ==
                    [Consume(r.p, "}", "Expect '}' after interface body.")
                        EXCEPT !.node = Node("Interface", name, <<superType>> \o r.items)]
                Headed(p2) ==
                    Closed(p2.node,
                           InterfaceBodyLoop(Consume(p2, "{", "Expect '{' before interface body."),
                                             <<>>))
            IN  Headed(IF Check(p1, "extends")
                       THEN ExtendsClause(Match(p1, "extends"), name)
                       ELSE [p1 EXCEPT !.node = NullNode])
    IN  Named(Consume(p, "id", "Expect an interface name."))

\* declaration(): every branch returns, "if (parser.panicMode) synchronize();"
\* after them is dead
Declaration(p) ==
    IF Check(p, "var") THEN VarDeclaration(Match(p, "var"))
    ELSE IF Check(p, "interface") THEN InterfaceDeclaration(Match(p, "interface"))
    ELSE Statement(p)

\* The generated sources.  Expression statements: up to MaxOperands identifiers,
\* each with or without a '!' before it, with an operator between every two.
Operands == {<<"id">>, <<"!", "id">>}
Operators == {"+", "-", "*", "and", "or", ".", "="}

RECURSIVE ExpressionsOf(_)
ExpressionsOf(n) ==
    IF n = 1 THEN Operands
    ELSE {e \o <<o>> \o x : e \in ExpressionsOf(n - 1), o \in Operators, x \in Operands}

ExpressionSources == UNION {ExpressionsOf(n) : n \in 1..MaxOperands}

\* "id, id, ..., id" with n identifiers
ArgumentsOf(n) ==
    IF n = 0 THEN <<>> ELSE [i \in 1..(2 * n - 1) |-> IF i % 2 = 1 THEN "id" ELSE ","]

\* "f(a1, ..., an)"
CallOf(n) == <<"id", "(">> \o ArgumentsOf(n) \o <<")">>

\* calls with up to MaxArgs arguments, and with two rounds of the counter
CallSources == {CallOf(n) : n \in 0..MaxArgs} \cup {CallOf(512), CallOf(513)}

\* "x | f(a1, ..., an)"
PipeOf(n) == <<"id", "|">> \o CallOf(n)

PipeSources == {PipeOf(n) : n \in 0..MaxPipeArgs}

\* "interface I { ... }" with up to MaxBodyTokens tokens in the body
BodyAlphabet == {"fun", "id", "(", ")", ",", ";", "var"}

InterfaceSources ==
    {<<"interface", "id", "{">> \o body \o <<"}">> :
        body \in UNION {[1..n -> BodyAlphabet] : n \in 0..MaxBodyTokens}}

\* "interface N extends ... { }" and "... { fun id ( ) }" with up to
\* MaxHeaderTokens names and colons between "extends" and the body
HeaderAlphabet == Names \cup {":"}

HeaderSources ==
    {<<"interface", n, "extends">> \o header \o <<"{">> \o body \o <<"}">> :
        n \in Names,
        header \in UNION {[1..k -> HeaderAlphabet] : k \in 1..MaxHeaderTokens},
        body \in {<<>>, <<"fun", "id", "(", ")">>}}

GrammarSources ==
    ExpressionSources \cup CallSources \cup PipeSources \cup InterfaceSources
        \cup HeaderSources

NoResult == [null |-> TRUE, statements |-> <<>>]

\* the parser before parseAST(src) is called
ParserAt(src) ==
    /\ source = src
    /\ parser = NewParser
    /\ statements = <<>>
    /\ pc = "start"
    /\ result = NoResult

\* ------------------------------------------------------------ type checker
\* A type descriptor is named by its address; "NULL" is the null pointer.  The
\* heap maps the addresses to the descriptors.  A Table is the sequence of its
\* entries <<key, value>>; a ValueArray of types is a sequence of addresses.
NULL == "NULL"

\* newSimpleType(), then its superType and tables filled in
SimpleType(superType, fields, methods) ==
    [kind |-> "Simple", superType |-> superType, fields |-> fields, methods |-> methods,
     arguments |-> <<>>, returnType |-> NULL, left |-> NULL, right |-> NULL,
     target |-> NULL, generics |-> <<>>, genericArgs |-> <<>>, extends |-> NULL]

\* newFunctorType(), then its arguments and returnType filled in
FunctorType(arguments, returnType) ==
    [kind |-> "Functor", superType |-> NULL, fields |-> <<>>, methods |-> <<>>,
     arguments |-> arguments, returnType |-> returnType, left |-> NULL, right |-> NULL,
     target |-> NULL, generics |-> <<>>, genericArgs |-> <<>>, extends |-> NULL]

\* newUnionType(), then left and right filled in
UnionType(left, right) ==
    [kind |-> "Union", superType |-> NULL, fields |-> <<>>, methods |-> <<>>,
     arguments |-> <<>>, returnType |-> NULL, left |-> left, right |-> right,
     target |-> NULL, generics |-> <<>>, genericArgs |-> <<>>, extends |-> NULL]

\* newInterfaceType(), then its tables and genericArgs filled in
InterfaceType(superType, fields, methods, genericArgs) ==
    [kind |-> "Interface", superType |-> superType, fields |-> fields, methods |-> methods,
     arguments |-> <<>>, returnType |-> NULL, left |-> NULL, right |-> NULL,
     target |-> NULL, generics |-> <<>>, genericArgs |-> genericArgs, extends |-> NULL]

\* newGenericType(), then target and generics filled in: an application G<A1..An>
GenericType(target, generics) ==
    [kind |-> "Generic", superType |-> NULL, fields |-> <<>>, methods |-> <<>>,
     arguments |-> <<>>, returnType |-> NULL, left |-> NULL, right |-> NULL,
     target |-> target, generics |-> generics, genericArgs |-> <<>>, extends |-> NULL]

\* newGenericTypeDefinition(), then extends filled in: a generic parameter
GenericTypeDefinition(extends) ==
    [kind |-> "GenericDef", superType |-> NULL, fields |-> <<>>, methods |-> <<>>,
     arguments |-> <<>>, returnType |-> NULL, left |-> NULL, right |-> NULL,
     target |-> NULL, generics |-> <<>>, genericArgs |-> <<>>, extends |-> extends]

\* tableGet(table, key, &value): whether the key is there, and its value
TableHas(table, key) == \E i \in 1..Len(table) : table[i][1] = key
TableGet(table, key) == table[CHOOSE i \in 1..Len(table) : table[i][1] = key][2]

\* tableSet(table, key, value)
TableSet(table, key, value) ==
    IF TableHas(table, key)
    THEN [i \in 1..Len(table) |-> IF table[i][1] = key THEN <<key, value>> ELSE table[i]]
    ELSE Append(table, <<key, value>>)

\* copyTable(from, to): every entry of from is set in to
RECURSIVE CopyTable(_, _)
CopyTable(from, to) ==
    IF from = <<>> THEN to
    ELSE CopyTable(Tail(from), TableSet(to, Head(from)[1], Head(from)[2]))

\* The checker's own state: the two static flags of types.c, what it printed,
\* the genericResolutions tables of currentEnv and of its enclosing
\* environments (innermost first), and the signal that ended the process.
NewChecker ==
    [panicMode |-> FALSE, hadError |-> FALSE, diags |-> <<>>,
     resolutions |-> << <<>> >>, locals |-> <<>>, nanBoxing |-> FALSE, fault |-> "none"]

\* errorAt(token, message) of types.c
TypeErrorAt(ck, token, message) ==
    IF ck.panicMode THEN ck
    ELSE [ck EXCEPT !.panicMode = TRUE,
                    !.diags = Append(@, <<token, message>>),
                    !.hadError = TRUE]

\* error(message) of types.c: at a synthetic token
TypeError(ck, message) == TypeErrorAt(ck, "Fake error location", message)

\* findGenericResolution(typeEnvironment, subclass): scopes[i..] are the
\* environment and those enclosing it.  A nil entry is a null object pointer.
RECURSIVE FindGenericResolution(_, _, _)
FindGenericResolution(scopes, i, subclass) ==
    IF i > Len(scopes) THEN NULL
    ELSE IF TableHas(scopes[i], subclass)
         THEN (IF TableGet(scopes[i], subclass) = "nil" THEN NULL
               ELSE TableGet(scopes[i], subclass))
         ELSE FindGenericResolution(scopes, i + 1, subclass)

\* neverType and anyType, two of the singletons of makeTypes()
NeverType == "Never"
AnyType == "Any"

\* what isSubType returns, with the checker's state after the call
Yes(ck) == [ok |-> TRUE, ck |-> ck]
No(ck) == [ok |-> FALSE, ck |-> ck]

\* a read through a null pointer
NullDeref(ck) == [ok |-> FALSE, ck |-> [ck EXCEPT !.fault = "SIGSEGV"]]

\* "(InterfaceType *) subclass" when subclass is a SimpleType: the two tables
\* the InterfaceType members name.  The struct layouts are those of types.h.
AsInterfaceType(descriptor) == [fields |-> descriptor.fields, methods |-> descriptor.methods]

RECURSIVE IsSubType(_, _, _, _)
RECURSIVE ResolveGenericArgument(_, _, _, _, _)
RECURSIVE ArgumentsLoop(_, _, _, _, _)
RECURSIVE EntriesLoop(_, _, _, _, _)
RECURSIVE BindLoop(_, _, _, _)
RECURSIVE ArgumentsLoopContra(_, _, _, _, _)
RECURSIVE EntriesLoopSkipsMissing(_, _, _, _, _)

\* resolveGenericArgument(typeEnvironment, subclass, superclass), with
\* ck.resolutions[i] the table of typeEnvironment
ResolveGenericArgument(h, ck, i, subclass, superclass) ==
    LET table == ck.resolutions[i]
    IN  IF TableHas(table, superclass)
        THEN IF TableGet(table, superclass) = "nil"
             THEN Yes([ck EXCEPT !.resolutions[i] = TableSet(table, superclass, subclass)])
             ELSE IsSubType(h, ck, subclass, TableGet(table, superclass))
        ELSE IF i >= Len(ck.resolutions) THEN No(ck)
        ELSE ResolveGenericArgument(h, ck, i + 1, subclass, superclass)

\* a loop that compares the arguments the other way round
ArgumentsLoopContra(h, ck, subArgs, superArgs, i) ==
    IF i > Len(superArgs) THEN Yes(ck)
    ELSE LET r == IsSubType(h, ck, superArgs[i], subArgs[i])
         IN  IF ~r.ok THEN No(r.ck)
             ELSE ArgumentsLoopContra(h, r.ck, subArgs, superArgs, i + 1)

\* the loops over the arguments of two functors and over the type arguments of
\* two applications: every one of the left a subtype of the one on the right
ArgumentsLoop(h, ck, subArgs, superArgs, i) ==
    IF i > Len(superArgs) THEN Yes(ck)
    ELSE LET r == IsSubType(h, ck, subArgs[i], superArgs[i])
         IN  IF ~r.ok THEN No(r.ck)
             ELSE ArgumentsLoop(h, r.ck, subArgs, superArgs, i + 1)

\* a loop that passes over the entries the other table does not have
EntriesLoopSkipsMissing(h, ck, subTable, superTable, i) ==
    IF i > Len(superTable) THEN Yes(ck)
    ELSE LET key == superTable[i][1]
         IN  IF ~TableHas(subTable, key)
             THEN EntriesLoopSkipsMissing(h, ck, subTable, superTable, i + 1)
             ELSE LET r == IsSubType(h, ck, TableGet(subTable, key), superTable[i][2])
                  IN  IF ~r.ok THEN No(r.ck)
                      ELSE EntriesLoopSkipsMissing(h, r.ck, subTable, superTable, i + 1)

\* the loops over the fields and over the methods of an interface: every entry
\* of the interface's table has an entry of the same key in the other table,
\* with a subtype as its value
EntriesLoop(h, ck, subTable, superTable, i) ==
    IF i > Len(superTable) THEN Yes(ck)
    ELSE LET key == superTable[i][1]
         IN  IF ~TableHas(subTable, key) THEN No(ck)
             ELSE LET r == IsSubType(h, ck, TableGet(subTable, key), superTable[i][2])
                  IN  IF ~r.ok THEN No(r.ck)
                      ELSE EntriesLoop(h, r.ck, subTable, superTable, i + 1)

\* the loop that writes the type arguments of an application of an interface
\* into currentEnv->genericResolutions, under the interface's parameters
BindLoop(table, genericArgs, generics, i) ==
    IF i > Len(generics) THEN table
    ELSE BindLoop(TableSet(table, genericArgs[i], generics[i]), genericArgs, generics, i + 1)

\* the first switch of isSubType, on the kind of subclass: done says that the
\* function returned there
SubclassSwitch(h, ck, subclass, superclass) ==
    LET sub == h[subclass]
    IN  CASE sub.kind = "Generic" ->
                LET r == IsSubType(h, ck, sub.target, superclass)
                IN  [done |-> r.ok, ok |-> r.ok, ck |-> r.ck]
          [] sub.kind = "GenericDef" ->
                LET inner == FindGenericResolution(ck.resolutions, 1, subclass)
                IN  IF inner # NULL
                    THEN LET r == IsSubType(h, ck, inner, superclass)
                         IN  [done |-> TRUE, ok |-> r.ok, ck |-> r.ck]
                    ELSE [done |-> FALSE, ok |-> FALSE, ck |-> ck]
          [] OTHER -> [done |-> FALSE, ok |-> FALSE, ck |-> ck]

\* the second switch of isSubType, on the kind of superclass
SuperclassSwitch(h, ck, subclass, superclass) ==
    LET sub == h[subclass]
        super == h[superclass]
    IN  CASE super.kind = "Simple" ->
                IF sub.kind # "Simple" THEN No(ck)
                ELSE IF sub.superType = NULL THEN No(ck)
                ELSE IsSubType(h, ck, sub.superType, superclass)
          [] super.kind = "Functor" ->
                IF sub.kind # "Functor" THEN No(ck)
                ELSE IF Len(super.arguments) # Len(sub.arguments) THEN No(ck)
                ELSE LET r == ArgumentsLoop(h, ck, sub.arguments, super.arguments, 1)
                     IN  IF ~r.ok THEN r
                         ELSE IsSubType(h, r.ck, sub.returnType, super.returnType)
          [] super.kind = "Generic" ->
                IF super.target = NULL THEN NullDeref(ck)
                ELSE IF h[super.target].kind = "Interface"
                THEN IF Len(super.generics) # Len(h[super.target].genericArgs)
                     THEN No(TypeError(ck, "Type argument count mismatch in generic"))
                     ELSE IsSubType(h,
                              [ck EXCEPT !.resolutions[1] =
                                  BindLoop(@, h[super.target].genericArgs, super.generics, 1)],
                              subclass, super.target)
                ELSE IF sub.kind # "Generic" THEN No(ck)
                ELSE IF Len(sub.generics) # Len(super.generics) THEN No(ck)
                ELSE LET r == ArgumentsLoop(h, ck, sub.generics, super.generics, 1)
                     IN  IF ~r.ok THEN r
                         ELSE IsSubType(h, r.ck, sub.target, super.target)
          [] super.kind = "GenericDef" ->
                LET r == IF super.extends = NULL THEN Yes(ck)
                         ELSE IsSubType(h, ck, subclass, super.extends)
                IN  IF r.ok THEN ResolveGenericArgument(h, r.ck, 1, subclass, superclass)
                    ELSE No(r.ck)
          [] super.kind = "Union" ->
                LET r == IsSubType(h, ck, subclass, super.left)
                IN  IF r.ok THEN r ELSE IsSubType(h, r.ck, subclass, super.right)
          [] super.kind = "Interface" ->
                IF sub.kind # "Interface" /\ sub.kind # "Simple" THEN No(ck)
                ELSE LET r == EntriesLoop(h, ck, AsInterfaceType(sub).fields, super.fields, 1)
                     IN  IF ~r.ok THEN r
                         ELSE EntriesLoop(h, r.ck, AsInterfaceType(sub).methods,
                                          super.methods, 1)

\* a subtype test without the shortcut for anyType
IsSubTypeWithoutTop(h, ck, subclass, superclass) ==
    IF subclass = superclass THEN Yes(ck)
    ELSE IF superclass = NeverType THEN No(ck)
    ELSE IF subclass = NULL THEN NullDeref(ck)
    ELSE LET first == SubclassSwitch(h, ck, subclass, superclass)
         IN  IF first.done THEN [ok |-> first.ok, ck |-> first.ck]
             ELSE IF superclass = NULL THEN NullDeref(first.ck)
             ELSE SuperclassSwitch(h, first.ck, subclass, superclass)

\* isSubType(subclass, superclass)
IsSubType(h, ck, subclass, superclass) ==
    IF subclass = superclass THEN Yes(ck)
    ELSE IF superclass = NeverType THEN No(ck)
    ELSE IF superclass = AnyType THEN Yes(ck)
    ELSE IF subclass = NULL THEN NullDeref(ck)
    ELSE LET first == SubclassSwitch(h, ck, subclass, superclass)
         IN  IF first.done THEN [ok |-> first.ok, ck |-> first.ck]
             ELSE IF superclass = NULL THEN NullDeref(first.ck)
             ELSE SuperclassSwitch(h, first.ck, subclass, superclass)

\* the descriptors makeTypes() allocates that the checks below use
BuiltinTypes ==
    [id \in {"Number", "String", NeverType, AnyType, "List", "Map"} |->
        SimpleType(NULL, <<>>, <<>>)]

\* a table with one entry, or none when the member is not declared
Member(name, type) == IF type = NULL THEN <<>> ELSE << <<name, type>> >>

\* The descriptors evaluateNode builds for a program's declarations and type
\* annotations:
\*   class Animal, class Dog < Animal, class Stack < List,
\*   class C with the optional members x: cx, m(): cm, n(): cn,
\*   interface I with the optional members x: ix, m(): im,
\*   interface J < I with n(): Animal (its tables start as a copy of I's),
\*   interface Box<T> with get(): T,
\*   and the annotations () => Dog, () => Animal, (Dog) => Dog,
\*   (Animal) => Dog, Number | String, List<...>, Map<Dog>, Box<Number>.
DeclaredTypes(cx, cm, cn, ix, im) ==
    LET I == InterfaceType(NULL, Member("x", ix), Member("m", im), <<>>)
    IN  [Animal |-> SimpleType(NULL, <<>>, <<>>),
         Dog |-> SimpleType("Animal", <<>>, <<>>),
         Stack |-> SimpleType("List", <<>>, <<>>),
         C |-> SimpleType(NULL, Member("x", cx), Member("m", cm) \o Member("n", cn)),
         I |-> I,
         J |-> InterfaceType("I", CopyTable(I.fields, <<>>),
                             TableSet(CopyTable(I.methods, <<>>), "n", "F_Animal"), <<>>),
         T |-> GenericTypeDefinition(NULL),
         Box |-> InterfaceType(NULL, <<>>, << <<"get", "F_T">> >>, <<"T">>),
         F_T |-> FunctorType(<<>>, "T"),
         F_Dog |-> FunctorType(<<>>, "Dog"),
         F_Animal |-> FunctorType(<<>>, "Animal"),
         F_DogDog |-> FunctorType(<<"Dog">>, "Dog"),
         F_AnimalDog |-> FunctorType(<<"Animal">>, "Dog"),
         U |-> UnionType("Number", "String"),
         List_Never |-> GenericType("List", <<NeverType>>),
         List_Any |-> GenericType("List", <<AnyType>>),
         List_Dog |-> GenericType("List", <<"Dog">>),
         List_Dog2 |-> GenericType("List", <<"Dog">>),
         List_Animal |-> GenericType("List", <<"Animal">>),
         List_DogDog |-> GenericType("List", <<"Dog", "Dog">>),
         Stack_Dog |-> GenericType("Stack", <<"Dog">>),
         Map_Dog |-> GenericType("Map", <<"Dog">>),
         Box_Number |-> GenericType("Box", <<"Number">>)]

\* the descriptors alive during a check, by identity
MakeHeap(cx, cm, cn, ix, im) == BuiltinTypes @@ DeclaredTypes(cx, cm, cn, ix, im)

FieldTypes == {NULL, "Dog"}
MethodTypes == {NULL, "F_Dog", "F_Animal"}

Heaps ==
    {MakeHeap(cx, cm, cn, ix, im) :
        cx \in FieldTypes, cm \in MethodTypes, cn \in {NULL, "F_Dog"},
        ix \in {NULL, "Animal"}, im \in MethodTypes}

TypeIds == DOMAIN MakeHeap(NULL, NULL, NULL, NULL, NULL)

\* the generic resolutions of currentEnv and of its enclosing environments at the
\* time of a call: T not in scope, in scope and unresolved, or resolved
Resolutions ==
    { << <<>> >>,
      << <<>>, << <<"T", "nil">> >> >>,
      << << <<"T", "Dog">> >>, <<>> >> }

NoQuery == [sub |-> NULL, super |-> NULL, ok |-> FALSE, asked |-> FALSE]

\* getTypeOf(value) for the value of a literal; in a build with NAN_BOXING the
\* function prints the value and returns NULL
GetTypeOf(ck, value) ==
    IF ck.nanBoxing THEN NULL
    ELSE CASE value = "number" -> "Number"
           [] value = "string" -> "String"
           [] OTHER -> NULL

\* getTypeDef(name): the descriptor defined under the name, of those
\* initGlobalEnvironment defines; the result with the checker's state after
GetTypeDef(h, ck, name) ==
    IF name \in DOMAIN BuiltinTypes THEN [type |-> name, ck |-> ck]
    ELSE [type |-> NULL, ck |-> TypeErrorAt(ck, name, "Undefined type")]

\* evaluateNode of the type annotation of a declaration: no node, or a
\* NODE_SIMPLE without type arguments
EvaluateAnnotation(h, ck, node) ==
    IF node = NULL THEN [type |-> NULL, ck |-> ck] ELSE GetTypeDef(h, ck, node)

\* evaluateNode of an initializer: no node, or a NODE_LITERAL
EvaluateLiteral(ck, node) == IF node = NULL THEN NULL ELSE GetTypeOf(ck, node)

\* the case NODE_VAR of evaluateNode
EvaluateVar(h, ck0, node) ==
    LET annotated == EvaluateAnnotation(h, ck0, node.type)
        varType == annotated.type
        ck == annotated.ck
    IN  IF node.initializer # NULL
        THEN LET valType == EvaluateLiteral(ck, node.initializer)
             IN  IF varType # NULL
                 THEN LET r == IsSubType(h, ck, valType, varType)
                      IN  IF ~r.ok
                          THEN LET again == IsSubType(h, r.ck, valType, varType)
                               IN  [TypeErrorAt(again.ck, node.name, "Type mismatch in var")
                                       EXCEPT !.locals = TableSet(@, node.name, varType)]
                          ELSE [r.ck EXCEPT !.locals = TableSet(@, node.name, varType)]
                 ELSE [ck EXCEPT !.locals = TableSet(@, node.name, valType)]
        ELSE [ck EXCEPT !.locals = TableSet(@, node.name, varType)]

\* the declarations "var <name>[: <type>][ = <literal>];"
VarNode(name, type, initializer) ==
    [name |-> name, type |-> type, initializer |-> initializer]

Annotations == {NULL, "Number", "String", AnyType, "Foo"}
Literals == {NULL, "number", "string"}

\* the programs of at most MaxStatements declarations, the i-th of the name i
Programs ==
    UNION {{[i \in 1..n |-> VarNode(i, ts[i], ls[i])] :
                ts \in [1..n -> Annotations], ls \in [1..n -> Literals]} :
           n \in 0..MaxStatements}

\* ------------------------------------------------------------- actions
\* the scheduler after initVM: the main frame alone, running
SchedulerAtStart ==
    /\ tasks = <<1>>
    /\ currentTask = 0
    /\ sleepers = <<>> /\ sleeper_times = <<>>
    /\ readers = <<>> /\ reader_fds = <<>>
    /\ writers = <<>> /\ writer_fds = <<>>
    /\ stored = [f \in Frames |-> "nil"]
    /\ nframes = 1
    /\ now = 0
    /\ fault = "none"
    /\ lastError = NoError
    /\ ahead = [f \in Frames |-> {}]
    /\ sleepUntil = [f \in Frames |-> 0]

\* the type checker before evaluateTypes(statements)
CheckerAt(stmts) ==
    /\ heap = MakeHeap(NULL, NULL, NULL, NULL, NULL)
    /\ checker = NewChecker
    /\ query = NoQuery
    /\ program = stmts
    /\ stmt = 0

SchedInit == SchedulerAtStart /\ ParserAt(<<>>) /\ CheckerAt(<<>>)

\* some frame is running: the process is alive and vm.currentTask names a frame
Running == fault = "none" /\ currentTask < Len(tasks)

\* spawnNative(1, args) with a closure in args[0]
Spawn ==
    /\ Running
    /\ nframes < MaxFrames
    /\ tasks' = WriteValueArray(tasks, nframes + 1)
    /\ stored' = [stored EXCEPT ![nframes + 1] = "nil"]
    /\ nframes' = nframes + 1
    /\ lastError' = NoError
    /\ UNCHANGED <<currentTask, sleepers, sleeper_times, readers, reader_fds, writers,
                   writer_fds, now, fault, ahead, sleepUntil>>
    /\ UNCHANGED parseVars
    /\ UNCHANGED typeVars

\* The history of the frames that waited before a woken sleeper: a frame the call
\* moved from the sleeper set into the ready queue has before it every frame that
\* was ready and not running; the frame picked next is before nobody any more.
AheadAfter(st, cur) ==
    LET next == st.tasks[st.currentTask + 1]
        woken == (Range(st.tasks) \ Range(tasks)) \cap Range(sleepers)
        waiting == Range(tasks) \ {cur}
    IN  [f \in Frames |->
            IF st.divZero \/ st.currentTask >= Len(st.tasks) THEN ahead[f]
            ELSE IF f \notin Range(st.tasks) THEN {}
            ELSE (IF f \in woken THEN waiting ELSE ahead[f]) \ {next}]

\* a wake time that has been reached is no longer remembered
Due(u, t) == IF u <= t THEN 0 ELSE u

\* The running frame yields value.  A sleep is tried only when its wake time lies
\* before the end of the modelled time, so that every sleeper can become due.
Yield(value, env) ==
    /\ Running
    /\ (value.kind = "list" /\ Trunc(value.op) = SLEEP) => now + value.arg < MaxTime
    /\ LET cur == CurrentFrame
           st == HandleYieldValue(Sched, cur, value, env)
           slept == value.kind = "list" /\ Trunc(value.op) = SLEEP
       IN  /\ tasks' = st.tasks
           /\ currentTask' = st.currentTask
           /\ sleepers' = st.sleepers
           /\ sleeper_times' = st.sleeper_times
           /\ readers' = st.readers
           /\ reader_fds' = st.reader_fds
           /\ writers' = st.writers
           /\ writer_fds' = st.writer_fds
           /\ stored' = st.stored
           /\ fault' \in (IF st.divZero THEN {"SIGFPE", "none"} ELSE {"none"})
           /\ lastError' = st.error
           /\ ahead' = AheadAfter(st, cur)
           /\ sleepUntil' = [f \in Frames |->
                               IF f = cur /\ slept THEN Due(now + value.arg, now)
                               ELSE sleepUntil[f]]
    /\ UNCHANGED <<nframes, now>>
    /\ UNCHANGED parseVars
    /\ UNCHANGED typeVars

\* time passes
Tick ==
    /\ fault = "none"
    /\ now < MaxTime
    /\ now' = now + 1
    /\ sleepUntil' = [f \in Frames |-> Due(sleepUntil[f], now + 1)]
    /\ lastError' = NoError
    /\ UNCHANGED <<tasks, currentTask, sleepers, sleeper_times, readers, reader_fds,
                   writers, writer_fds, stored, nframes, fault, ahead>>
    /\ UNCHANGED parseVars
    /\ UNCHANGED typeVars

SchedNext ==
    \/ Spawn
    \/ \E value \in YieldValues : \E env \in Envs(value) : Yield(value, env)
    \/ Tick

vars == <<schedVars, parseVars, typeVars>>

Spec == SchedInit /\ [][SchedNext]_vars

\* Time keeps advancing, and the running frame keeps coming back to a plain yield.
LiveSpec ==
    /\ Spec
    /\ WF_vars(Tick)
    /\ WF_vars(\E env \in Envs(NilValue) : Yield(NilValue, env))

\* parseAST(source), up to its loop: the two resets and the first advance()
ParseStart ==
    /\ pc = "start"
    /\ parser' = Advance([parser EXCEPT !.hadError = FALSE, !.panicMode = FALSE])
    /\ statements' = <<>>
    /\ pc' = "loop"
    /\ UNCHANGED <<source, result>>
    /\ UNCHANGED schedVars
    /\ UNCHANGED typeVars

\* one round of parseAST's loop: match(TOKEN_EOF) fails and declaration()'s
\* statement is written to the array
ParseDeclaration ==
    /\ pc = "loop"
    /\ ~Check(parser, "EOF")
    /\ LET Written(p) ==
               IF p.halt = "none"
               THEN /\ parser' = [p EXCEPT !.decl = @ + 1]
                    /\ statements' = Append(statements, p.node)
                    /\ pc' = pc
               ELSE /\ parser' = p
                    /\ statements' = statements
                    /\ pc' = p.halt
       IN  Written(Declaration(parser))
    /\ UNCHANGED <<source, result>>
    /\ UNCHANGED schedVars
    /\ UNCHANGED typeVars

\* the end of parseAST: match(TOKEN_EOF) succeeds, consume(TOKEN_EOF), return
ParseReturn ==
    /\ pc = "loop"
    /\ Check(parser, "EOF")
    /\ LET p == Consume(Match(parser, "EOF"), "EOF", "Expect end of expression.")
       IN  /\ parser' = p
           /\ result' = IF p.hadError THEN NoResult
                        ELSE [null |-> FALSE, statements |-> statements]
    /\ pc' = "done"
    /\ UNCHANGED <<source, statements>>
    /\ UNCHANGED schedVars
    /\ UNCHANGED typeVars

ParseInit == SchedulerAtStart /\ (\E src \in Sources : ParserAt(src)) /\ CheckerAt(<<>>)

ParseNext == ParseStart \/ ParseDeclaration \/ ParseReturn

ParseSpec == ParseInit /\ [][ParseNext]_vars

\* parseAST on the generated sources
GrammarInit ==
    SchedulerAtStart /\ (\E src \in GrammarSources : ParserAt(src)) /\ CheckerAt(<<>>)

GrammarSpec == GrammarInit /\ [][ParseNext]_vars

\* one round of the loop of evaluateTypes(statements)
EvaluateStatement ==
    /\ checker.fault = "none"
    /\ stmt < Len(program)
    /\ LET ck == EvaluateVar(heap, checker, program[stmt + 1])
       IN  checker' \in (IF ck.fault = "none" THEN {ck}
                         ELSE {[checker EXCEPT !.fault = ck.fault]})
    /\ stmt' = stmt + 1
    /\ UNCHANGED <<heap, query, program>>
    /\ UNCHANGED <<schedVars, parseVars>>

\* evaluateTypes(statements) after parseFile's initTypeEnvironment and
\* initGlobalEnvironment, in a build without or with NAN_BOXING
CheckInit ==
    /\ SchedulerAtStart /\ ParserAt(<<>>)
    /\ heap = MakeHeap(NULL, NULL, NULL, NULL, NULL)
    /\ checker \in {[NewChecker EXCEPT !.nanBoxing = b] : b \in BOOLEAN}
    /\ query = NoQuery
    /\ program \in Programs
    /\ stmt = 0

CheckNext == EvaluateStatement

CheckSpec == CheckInit /\ [][CheckNext]_vars

\* isSubType(sub, super) for two descriptors of the heap, with the generic
\* resolutions of the environments as some earlier check left them
AskIsSubType(sub, super, resolutions) ==
    /\ ~query.asked
    /\ LET r == IsSubType(heap, [checker EXCEPT !.resolutions = resolutions], sub, super)
       IN  /\ query' = [sub |-> sub, super |-> super, ok |-> r.ok, asked |-> TRUE]
           /\ checker' = r.ck
    /\ UNCHANGED <<heap, program, stmt>>
    /\ UNCHANGED <<schedVars, parseVars>>

SubTypeInit ==
    /\ SchedulerAtStart /\ ParserAt(<<>>)
    /\ heap \in Heaps
    /\ checker = NewChecker
    /\ query = NoQuery
    /\ program = <<>>
    /\ stmt = 0

SubTypeNext ==
    \E sub \in TypeIds, super \in TypeIds, resolutions \in Resolutions :
        AskIsSubType(sub, super, resolutions)

SubTypeSpec == SubTypeInit /\ [][SubTypeNext]_vars

\* ---------------------------------------------------------------- claims
\* whether the call handling value calls getTasks
Pumps(value, env) == HandleYieldValue(Sched, CurrentFrame, value, env).pumped

Suspends(value) == value.kind = "list" /\ Trunc(value.op) \in {SLEEP, WAIT_IO_READ, WAIT_IO_WRITE}

waiterVars == <<sleepers, sleeper_times, readers, reader_fds, writers, writer_fds>>

\* C1: a frame the pump wakes is never scheduled before a frame that was in the
\* ready queue, waiting for its turn, when it was woken: the frame that runs has
\* no frame recorded as having waited before it.
C1_WokenNeverJumpsAhead == Running => ahead[CurrentFrame] = {}

\* C2: a non-list yield during which nothing is woken (the ready queue stays as it
\* is) hands over to the next frame in insertion order, wrapping to the head; so n
\* frames that only yield this way run cyclically, each once per n yields.
C2_RoundRobin ==
    [][\A env \in Envs(NilValue) :
          (Yield(NilValue, env) /\ tasks' = tasks)
              => /\ currentTask' = (currentTask + 1) % Len(tasks)
                 /\ UNCHANGED waiterVars]_vars

\* C2 has happened: three frames in insertion order, none ever suspended or woken,
\* and the third one running, which only two plain yields bring about.
C2_Witness ==
    /\ tasks = <<1, 2, 3>> /\ currentTask = 2
    /\ sleepers = <<>> /\ readers = <<>> /\ writers = <<>>
    /\ \A f \in Frames : stored[f] = "nil"

\* C3: a yield of [op, arg] with op 1, 2 or 4 takes exactly the running frame out
\* of the ready queue, appends it and its key to the matching waiter set alone,
\* keeps the other ready frames in order, and picks the frame that followed it.
C3_SuspendEffect ==
    [][\A value \in YieldValues : \A env \in Envs(value) :
          (Suspends(value) /\ Yield(value, env))
              => LET cur == CurrentFrame
                     op == Trunc(value.op)
                     others == PopValueArray(tasks, currentTask)
                     key == IF op = SLEEP THEN now + value.arg ELSE value.arg
                 IN  /\ fault' = "none"
                     /\ cur \notin Range(tasks')
                     /\ SelectSeq(tasks', LAMBDA f : f \in Range(others)) = others
                     /\ IF op = SLEEP
                        THEN /\ sleepers' = Append(sleepers, cur)
                             /\ sleeper_times' = Append(sleeper_times, key)
                        ELSE UNCHANGED <<sleepers, sleeper_times>>
                     /\ IF op = WAIT_IO_READ
                        THEN /\ readers' = Append(readers, cur)
                             /\ reader_fds' = Append(reader_fds, key)
                        ELSE UNCHANGED <<readers, reader_fds>>
                     /\ IF op = WAIT_IO_WRITE
                        THEN /\ writers' = Append(writers, cur)
                             /\ writer_fds' = Append(writer_fds, key)
                        ELSE UNCHANGED <<writers, writer_fds>>
                     /\ Len(others) > 0 =>
                            /\ currentTask' < Len(tasks')
                            /\ tasks'[currentTask' + 1] = others[(currentTask % Len(others)) + 1]]_vars

\* C4: a frame that yielded [1, d] at time t is not in the ready queue before t + d.
C4_NoEarlyWake == \A f \in Range(tasks) : sleepUntil[f] <= now

\* C4's case: a pump has woken some frame while another frame, whose wake time is
\* still ahead, stayed in the sleeper set and out of the ready queue.
C4_Witness ==
    /\ \E f \in Range(tasks) : stored[f] = "true"
    /\ \E i \in 1..Len(sleepers) :
           /\ sleeper_times[i] > now
           /\ sleepUntil[sleepers[i]] = sleeper_times[i]
           /\ sleepers[i] \notin Range(tasks)

\* C5: every frame in the sleeper set is eventually out of it, with stored = true
\* and in the ready queue.
C5_SleepersWake ==
    \A f \in Frames :
        (f \in Range(sleepers))
            ~> (f \notin Range(sleepers) /\ stored[f] = "true" /\ f \in Range(tasks))

\* C6: a pump that finds the descriptor of a waiting reader readable (of a waiting
\* writer writable) moves that frame to the ready queue with stored = true.
C6_ReadyWaiterWoken ==
    [][\A value \in YieldValues : \A env \in Envs(value) :
          (Yield(value, env) /\ Pumps(value, env))
              => /\ \A i \in 1..Len(readers) :
                        Trunc(reader_fds[i]) \in env.readable
                            => readers[i] \in Range(tasks') /\ stored'[readers[i]] = "true"
                 /\ \A i \in 1..Len(writers) :
                        Trunc(writer_fds[i]) \in env.writable
                            => writers[i] \in Range(tasks') /\ stored'[writers[i]] = "true"]_vars

\* C7 as stated: a yielded list whose first element is a number other than 1, 2
\* and 4 raises "Invalid yield op" and leaves the scheduler as it was.
C7_OpOutsideSetRejected ==
    [][\A value \in YieldValues : \A env \in Envs(value) :
          (/\ value.kind = "list"
           /\ value.op \notin {2 * SLEEP, 2 * WAIT_IO_READ, 2 * WAIT_IO_WRITE}
           /\ Yield(value, env))
              => /\ lastError' = <<"Invalid yield op", Trunc(value.op)>>
                 /\ UNCHANGED <<tasks, currentTask, waiterVars>>]_vars

\* C7 amended: a yielded list whose first element, truncated toward zero, is
\* other than 1, 2 and 4 raises "Invalid yield op <truncated op>" and leaves the
\* ready queue, the current-task index and the three waiter sets as they were.
C7_TruncatedOpRejected ==
    [][\A value \in YieldValues : \A env \in Envs(value) :
          (/\ value.kind = "list"
           /\ Trunc(value.op) \notin {SLEEP, WAIT_IO_READ, WAIT_IO_WRITE}
           /\ Yield(value, env))
              => /\ lastError' = <<"Invalid yield op", Trunc(value.op)>>
                 /\ UNCHANGED <<tasks, currentTask, waiterVars>>]_vars

\* C7's case: op 3 (or 3.5) was yielded while another frame slept and two were ready.
C7_Witness ==
    /\ lastError = <<"Invalid yield op", 3>>
    /\ Len(tasks) = 2 /\ Len(sleepers) = 1

\* C8: getTasks is called only when no frame other than the yielding one is ready.
C8_PumpOnlyWhenIdle ==
    [][\A value \in YieldValues : \A env \in Envs(value) :
          (Yield(value, env) /\ Pumps(value, env))
              => Range(tasks) \ {CurrentFrame} = {}]_vars

\* the statements are the declarations of the source in the order they stand in
\* it: none is NULL and each begins after the one before it
InSourceOrder(stmts) ==
    /\ \A i \in 1..Len(stmts) : stmts[i] # NullNode /\ stmts[i].tok \in 1..Len(source)
    /\ \A i \in 1..(Len(stmts) - 1) : stmts[i].tok < stmts[i + 1].tok

\* C9: when parseAST returns, it returns NULL exactly when a diagnostic was
\* printed, and otherwise the array of the top-level statements in source order.
C9_NullIffDiagnostic ==
    pc = "done" =>
        /\ result.null <=> Len(parser.diags) >= 1
        /\ ~result.null => /\ result.statements = statements
                           /\ InSourceOrder(result.statements)

\* C9's case: a parse without a diagnostic returned two statements.
C9_Witness ==
    /\ pc = "done"
    /\ ~result.null
    /\ Len(result.statements) = 2
    /\ parser.diags = <<>>

\* C10: panic mode is cleared when a declaration ends, so an error raised in a
\* later declaration than the one whose diagnostic set panic mode is never dropped.
C10_LaterErrorReported == parser.lateDrops = 0

\* C12: parseAST terminates: every round of a loop of the parser takes at least
\* one token or leaves the loop, so the parser never arrives at a round that
\* repeats for ever.
C12_EveryRoundConsumes == pc # "hang"

\* the nodes of a tree
RECURSIVE NodesOf(_)
NodesOf(node) == {node} \cup UNION {NodesOf(node.kids[i]) : i \in 1..Len(node.kids)}

\* the positions of the tokens a tree of an expression statement is made of,
\* from left to right
RECURSIVE TokensOf(_)
TokensOf(node) ==
    CASE node.type = "Variable" -> <<node.tok>>
      [] node.type = "Unary" -> <<node.tok>> \o TokensOf(node.kids[1])
      [] node.type = "Binary" ->
            TokensOf(node.kids[1]) \o <<node.tok>> \o TokensOf(node.kids[2])
      [] node.type = "Get" -> TokensOf(node.kids[1]) \o <<node.tok - 1, node.tok>>
      [] node.type = "Set" ->
            TokensOf(node.kids[1]) \o <<node.tok - 1, node.tok, node.tok + 1>>
                \o TokensOf(node.kids[2])
      [] node.type = "Assign" -> <<node.tok, node.tok + 1>> \o TokensOf(node.kids[1])
      [] node.type = "Expression" -> TokensOf(node.kids[1])
      [] OTHER -> <<>>

\* the level of the operator of a Binary node in the table
LevelOf(node) == GetRule(TokenAt(node.tok)).precedence

\* an expression statement of the generated sources parsed without a diagnostic
ParsedExpression ==
    /\ pc = "done"
    /\ source \in ExpressionSources
    /\ parser.diags = <<>>

\* C13: precedence follows the table.  In the tree of an expression parsed
\* without error, which is made of the tokens of the source in their order, a
\* Binary node that is an operand of a Binary node has an operator of the same
\* level or higher, and of a higher level when it is the right operand of '+',
\* '-' or '*' (those associate to the left); so 'and' binds tighter than 'or';
\* and no '.' has a unary expression as its object.
C13_PrecedenceFollowsTable ==
    ParsedExpression =>
        /\ Len(statements) = 1
        /\ TokensOf(statements[1]) = [i \in 1..Len(source) |-> i]
        /\ \A b \in NodesOf(statements[1]) :
              /\ b.type = "Binary" =>
                    \A i \in 1..2 :
                        b.kids[i].type = "Binary" =>
                            /\ LevelOf(b.kids[i]) >= LevelOf(b)
                            /\ (i = 2 /\ TokenAt(b.tok) \in {"+", "-", "*"})
                                  => LevelOf(b.kids[i]) > LevelOf(b)
              /\ b.type \in {"Get", "Set"} => b.kids[1].type # "Unary"

\* "a - b * c" parsed as a - (b * c)
C13_Witness ==
    /\ pc = "done"
    /\ source = <<"id", "-", "id", "*", "id">>
    /\ statements =
          << Node("Expression", 1,
                  << Node("Binary", 2,
                          << Node("Variable", 1, <<>>),
                             Node("Binary", 4, << Node("Variable", 3, <<>>),
                                                  Node("Variable", 5, <<>>) >>) >>) >>) >>

\* whether the tokens that end at position k are an assignable target: a name,
\* or a property of one, at the start of the statement or of the right side of
\* an assignment
RECURSIVE BareTarget(_)
BareTarget(k) ==
    /\ k >= 1
    /\ source[k] = "id"
    /\ \/ k = 1
       \/ source[k - 1] = "="
       \/ k >= 3 /\ source[k - 1] = "." /\ BareTarget(k - 2)

\* C14: the assignment-target gate: an '=' after an expression that is not a
\* bare assignable target is reported, so a source parsed without a diagnostic
\* has every '=' right after an assignable target.
C14_AssignmentGate ==
    ParsedExpression =>
        \A k \in 1..Len(source) : source[k] = "=" => BareTarget(k - 1)

\* the number of arguments of the call after the pipe of a source x | f(...)
PipeArgs == IF Len(source) = 5 THEN 0 ELSE (Len(source) - 4) \div 2

\* C15: x | f(a1, ..., an) is parsed as the call of f with the n + 1 arguments
\* x, a1, ..., an in that order.
C15_PipeShiftsArguments ==
    (pc = "done" /\ source \in PipeSources) =>
        statements =
            << Node("Expression", 1,
                    << Node("Call", 4,
                            << Node("Variable", 3, <<>>), Node("Variable", 1, <<>>) >>
                                \o [i \in 1..PipeArgs |-> Node("Variable", 3 + 2 * i, <<>>)])
                    >>) >>

\* a source f(a1, ..., an) that has been parsed, and its n
ParsedCall == pc = "done" /\ Len(source) >= 3 /\ source[1] = "id" /\ source[2] = "("
CallArgs == Len(source) \div 2 - 1

TooManyArguments ==
    \E i \in 1..Len(parser.diags) :
        parser.diags[i][2] = "Can't have more than 255 arguments."

\* C16: a call with at most 255 arguments is parsed without a diagnostic, and a
\* call with more than 255 arguments, whatever the count, gets the diagnostic
\* "Can't have more than 255 arguments."
C16_ArgumentLimit ==
    ParsedCall =>
        /\ CallArgs <= 255 => (parser.diags = <<>> /\ ~result.null)
        /\ CallArgs > 255 => (TooManyArguments /\ result.null)

\* a call with 256 arguments
C16_Witness == ParsedCall /\ CallArgs = 256 /\ TooManyArguments

\* the declarations of the program whose check is a type error: an annotation
\* that names no type, or a literal that is not of the annotated type
TypeErrors ==
    {i \in 1..Len(program) :
        \/ program[i].type = "Foo"
        \/ /\ program[i].type \in {"Number", "String"}
           /\ program[i].initializer # NULL
           /\ program[i].initializer # (IF program[i].type = "Number" THEN "number"
                                        ELSE "string")}

\* C11: the checker does not stop reporting after the first error: when the
\* whole program has been checked, there is one diagnostic for each declaration
\* of the program that is a type error.
C11_EveryErrorReported ==
    (stmt = Len(program) /\ checker.fault = "none")
        => Len(checker.diags) = Cardinality(TypeErrors)

\* C17: isSubType is reflexive by identity and has Any as its top: a call with
\* the same descriptor on both sides, or with Any on the right, returns true,
\* whatever the variant of the descriptor.
C17_ReflexiveAndTop ==
    (query.asked /\ (query.sub = query.super \/ query.super = AnyType))
        => (query.ok /\ checker.fault = "none" /\ checker.diags = <<>>)

\* a call with an application of an interface on the left and Any on the right
C17_Witness ==
    /\ query.asked /\ query.ok
    /\ query.sub = "Box_Number" /\ query.super = AnyType

\* C18: Never is the bottom type: a call with Never on the left returns true.
C18_NeverIsBottom == (query.asked /\ query.sub = NeverType) => query.ok

\* whether b is reached from a by following superType, in one step or more
RECURSIVE Extends(_, _)
Extends(a, b) ==
    IF heap[a].superType = NULL THEN FALSE
    ELSE heap[a].superType = b \/ Extends(heap[a].superType, b)

\* the subtype relation on the classes of the heap, with Any above every class
\* and Never below itself and Any only
ClassBelow(a, b) == a = b \/ b = AnyType \/ (b # NeverType /\ Extends(a, b))

\* the subtype relation on the member types of the heap: classes, and functors
\* without parameters by their return types
MemberBelow(a, b) ==
    \/ a = b
    \/ /\ heap[a].kind = "Simple" /\ heap[b].kind = "Simple"
       /\ ClassBelow(a, b)
    \/ /\ heap[a].kind = "Functor" /\ heap[b].kind = "Functor"
       /\ heap[a].arguments = <<>> /\ heap[b].arguments = <<>>
       /\ ClassBelow(heap[a].returnType, heap[b].returnType)

\* every entry of the table of the interface is in the other table under the
\* same name, with a subtype as its type
TableSatisfies(subTable, superTable) ==
    \A i \in 1..Len(superTable) :
        \E j \in 1..Len(subTable) :
            /\ subTable[j][1] = superTable[i][1]
            /\ MemberBelow(subTable[j][2], superTable[i][2])

C20_GenericCovariant ==
    (/\ query.asked
     /\ heap[query.sub].kind = "Generic" /\ heap[query.super].kind = "Generic"
     /\ heap[heap[query.sub].target].kind = "Simple"
     /\ heap[heap[query.super].target].kind = "Simple")
        => LET A == heap[query.sub].generics
               B == heap[query.super].generics
           IN  query.ok <=>
                   /\ Len(A) = Len(B)
                   /\ \A i \in 1..Len(B) : ClassBelow(A[i], B[i])
                   /\ ClassBelow(heap[query.sub].target, heap[query.super].target)

\* List<Never> against List<Any>
C20_Witness ==
    /\ query.asked /\ query.ok
    /\ query.sub = "List_Never" /\ query.super = "List_Any"

\* C27: after handle_yield_value returns the ready queue is not empty and
\* vm.currentTask is an index into it; the modulo by the length of the ready
\* queue is never taken with length 0.
C27_ReadyQueueNeverEmpty == Len(tasks) > 0 /\ currentTask < Len(tasks)

\* how often frame f occurs in array
Occurrences(array, f) == Cardinality({i \in 1..Len(array) : array[i] = f})

\* every allocated frame is in exactly one place, once, and the parallel arrays
\* have the lengths of their waiter arrays
FramePlacedOnce ==
    /\ \A f \in 1..nframes :
          Occurrences(tasks, f) + Occurrences(sleepers, f)
              + Occurrences(readers, f) + Occurrences(writers, f) = 1
    /\ Len(sleepers) = Len(sleeper_times)
    /\ Len(readers) = Len(reader_fds)
    /\ Len(writers) = Len(writer_fds)

\* every entry of a waiter array after a step, with its key, is an entry of the
\* array before the step with the same key, or the entry of the frame that ran
PairsKept(waiters, keys, waitersAfter, keysAfter) ==
    \A i \in 1..Len(waitersAfter) :
        \/ \E j \in 1..Len(waiters) :
              waiters[j] = waitersAfter[i] /\ keys[j] = keysAfter[i]
        \/ Running /\ waitersAfter[i] = CurrentFrame /\ CurrentFrame \notin Range(waiters)

C26_SetOnlyAtAssignmentLevel ==
    (pc = "done" /\ source \in ExpressionSources) =>
        \A i \in 1..Len(statements) :
            \A n \in NodesOf(statements[i]) : n.type = "Set" => BareTarget(n.tok)

\* a source "interface N extends P { ... }" that has been parsed, and its names
ParsedHeader ==
    /\ pc = "done"
    /\ source \in HeaderSources
    /\ source[4] \in Names
    /\ source[5] = "{"

ExtendsItself ==
    \E i \in 1..Len(parser.diags) :
        parser.diags[i][2] = "An interface can't extend from itself."

\* C25: "interface Name extends Parent { signatures }" with Parent different
\* from Name parses with no diagnostic and records Parent as the interface's
\* super type, and "interface Name extends Name { ... }" reports "An interface
\* can't extend from itself."
C25_InterfaceHeader ==
    ParsedHeader =>
        IF source[2] # source[4]
        THEN /\ parser.diags = <<>>
             /\ ~result.null
             /\ Len(statements) = 1
             /\ statements[1].type = "Interface"
             /\ statements[1].kids[1].tok = 4
        ELSE ExtendsItself

\* ------------------------------------------------------------ class check
\* The case NODE_CLASS of evaluateNode.  The class's descriptor is at address
\* "K" and the FunctorType of its method m at "K.m"; nilType is "Nil".
ClassType == "K"
NilType == "Nil"
MethodTypeOf == [a |-> "K.a", b |-> "K.b"]

\* a method "fun name() { this.r1; this.r2; ... }" of a class body, and a field
\* (a Var node)
MethodNode(name, refs) == [name |-> name, refs |-> refs]
IsMethod(member) == "refs" \in DOMAIN member

\* the heap with the descriptor at address id replaced or added
Store(h, id, descriptor) ==
    [a \in DOMAIN h \cup {id} |-> IF a = id THEN descriptor ELSE h[a]]

\* initTypeEnvironment(&typeEnv, type): a new environment, without generic
\* resolutions, in front of currentEnv
InitTypeEnvironment(ck) == [ck EXCEPT !.resolutions = << <<>> >> \o @]

\* "currentEnv = currentEnv->enclosing"
LeaveEnvironment(ck) == [ck EXCEPT !.resolutions = Tail(@)]

\* The case NODE_GET of evaluateNode for "this.name" inside a class: the
\* checker after it.  The value returned after "Invalid field" is read from an
\* uninitialized variable; an expression statement does not use it.
EvaluateGetThis(h, ck, name) ==
    LET rootType == h[ClassType]
    IN  IF ~TableHas(rootType.methods, name) /\ ~TableHas(rootType.fields, name)
        THEN TypeErrorAt(ck, name, "Invalid field")
        ELSE ck

\* evaluateTypes(&method->body) for a body of expression statements "this.r;"
RECURSIVE EvaluateBody(_, _, _, _)
EvaluateBody(h, ck, refs, i) ==
    IF i > Len(refs) THEN ck
    ELSE EvaluateBody(h, EvaluateGetThis(h, ck, refs[i]), refs, i + 1)

\* One round of the loop over the class body for a method without parameters
\* and without return type: the signature is set in the class's methods, then
\* the body is checked, then the return type becomes nilType.
EvaluateMethod(st, method) ==
    LET type == MethodTypeOf[method.name]
        h1 == Store(st.h, type, FunctorType(<<>>, NULL))
        h2 == Store(h1, ClassType,
                    [h1[ClassType] EXCEPT !.methods = TableSet(@, method.name, type)])
        Checked(ck) ==
            [h |-> Store(h2, type, FunctorType(<<>>, NilType)),
             ck |-> LeaveEnvironment(ck)]
    IN  Checked(EvaluateBody(h2, InitTypeEnvironment(st.ck), method.refs, 1))

\* One round of the loop over the class body for a field:
\* "if (!isSubType(type, evaluateNode(var->initializer))) errorAt(...)".
EvaluateField(st, var) ==
    LET Annotated(a) ==
            LET Tested(r) ==
                    [h |-> Store(st.h, ClassType,
                                 [st.h[ClassType] EXCEPT
                                     !.fields = TableSet(@, var.name, a.type)]),
                     ck |-> IF r.ok THEN r.ck
                            ELSE TypeErrorAt(r.ck, var.name, "Type mismatch.")]
            IN  Tested(IF var.initializer = NULL THEN Yes(a.ck)
                       ELSE IsSubType(st.h, a.ck, a.type,
                                      EvaluateLiteral(a.ck, var.initializer)))
    IN  Annotated(EvaluateAnnotation(st.h, st.ck, var.type))

\* the class bodies: two methods a and b, each with at most one reference
\* through this, and a field f, in any order of declaration
MemberRefs == {<<>>, <<"a">>, <<"b">>, <<"f">>, <<"c">>}

ClassBodies ==
    {[i \in 1..3 |-> IF i = order[1] THEN MethodNode("a", ra)
                     ELSE IF i = order[2] THEN MethodNode("b", rb)
                     ELSE VarNode("f", type, initializer)] :
        order \in {<<1, 2>>, <<2, 1>>, <<1, 3>>, <<3, 1>>, <<2, 3>>, <<3, 2>>},
        ra \in MemberRefs, rb \in MemberRefs,
        type \in Annotations \ {NULL}, initializer \in Literals}

\* the descriptors alive when the check of the class begins: newSimpleType()
\* has made the class's
ClassHeap ==
    Store(Store(MakeHeap(NULL, NULL, NULL, NULL, NULL), NilType, SimpleType(NULL, <<>>, <<>>)),
          ClassType, SimpleType(NULL, <<>>, <<>>))

\* One round of the loop over the body of the class: a method or a field
EvaluateMember ==
    /\ checker.fault = "none"
    /\ stmt < Len(program)
    /\ LET member == program[stmt + 1]
           Done(r) ==
               IF r.ck.fault = "none" THEN heap' = r.h /\ checker' = r.ck
               ELSE heap' = heap /\ checker' = [checker EXCEPT !.fault = r.ck.fault]
       IN  Done(IF IsMethod(member)
                THEN EvaluateMethod([h |-> heap, ck |-> checker], member)
                ELSE EvaluateField([h |-> heap, ck |-> checker], member))
    /\ stmt' = stmt + 1
    /\ UNCHANGED <<query, program>>
    /\ UNCHANGED <<schedVars, parseVars>>

\* After the loop: the class's environment is left and the class is defined
\* in the enclosing one.
EndClass ==
    /\ checker.fault = "none"
    /\ stmt = Len(program)
    /\ checker' = [LeaveEnvironment(checker) EXCEPT
                      !.locals = TableSet(@, ClassType, "K.init")]
    /\ heap' = Store(heap, "K.init", FunctorType(<<>>, ClassType))
    /\ stmt' = stmt + 1
    /\ UNCHANGED <<query, program>>
    /\ UNCHANGED <<schedVars, parseVars>>

\* evaluateNode of a class declaration at the point where the class's
\* descriptor is made and its environment entered, in a build without or with
\* NAN_BOXING
ClassInit ==
    /\ SchedulerAtStart /\ ParserAt(<<>>)
    /\ heap = ClassHeap
    /\ checker \in {InitTypeEnvironment([NewChecker EXCEPT !.nanBoxing = b]) : b \in BOOLEAN}
    /\ query = NoQuery
    /\ program \in ClassBodies
    /\ stmt = 0

ClassNext == EvaluateMember \/ EndClass

ClassSpec == ClassInit /\ [][ClassNext]_vars

\* C30: a class field with a declared type and an initializer is accepted
\* without diagnostic exactly when the initializer's type is a subtype of the
\* declared type, the direction in which a var declaration is checked.
FieldChecked(i) ==
    /\ i <= stmt /\ i <= Len(program)
    /\ ~IsMethod(program[i])
    /\ program[i].initializer # NULL
    /\ program[i].type \in DOMAIN BuiltinTypes
    /\ checker.fault = "none"

FieldRejected(i) ==
    \E k \in 1..Len(checker.diags) : checker.diags[k][1] = program[i].name

InitializerFits(i) ==
    IsSubType(ClassHeap, NewChecker,
              EvaluateLiteral(checker, program[i].initializer), program[i].type).ok

C30_FieldCheckedLikeVar ==
    \A i \in 1..Len(program) :
        FieldChecked(i) => (~FieldRejected(i) <=> InitializerFits(i))

\* C23: a method body that refers through this to a method of the class is
\* checked without an "Invalid field" diagnostic, wherever in the class the
\* method referred to is declared.
MethodNames == {program[i].name : i \in {j \in 1..Len(program) : IsMethod(program[j])}}

RefersToMethodsOnly ==
    \A i \in 1..Len(program) :
        IsMethod(program[i]) =>
            \A k \in 1..Len(program[i].refs) : program[i].refs[k] \in MethodNames

C23_SignaturesBeforeBodies ==
    RefersToMethodsOnly =>
        \A k \in 1..Len(checker.diags) : checker.diags[k][2] # "Invalid field"

\* -------------------------------------------------------------- imports
\* parseFile and the case NODE_IMPORT of evaluateNode.  The files hold import
\* statements only; program maps a path to the paths its file imports, in
\* order, and "main" is the file evaluateTree checks.
Paths == {"a", "b"}
MaxImports == 2
MaxImportDepth == 4

FileBodies == UNION {[1..n -> Paths] : n \in 0..MaxImports}

\* the address of the k-th descriptor parseFile makes with newSimpleType()
ModuleTypes == <<"module1", "module2">>

\* An activation of evaluateTypes on the body of a file: the file's path, the
\* number of statements checked, and the locals of its TypeEnvironment.
Activation(path) == [path |-> path, pos |-> 0, locals |-> <<>>]

\* The checker with the statics the imports use: the table modules, the
\* activations of evaluateTypes (innermost first), and the history of the
\* files read and of the descriptors the imports bound.
ImportChecker ==
    NewChecker @@ [modules |-> <<>>, stack |-> <<Activation("main")>>,
                   parsed |-> <<>>, imports |-> <<>>]

\* the statement the innermost activation checks next
NextImport == program[Head(checker.stack).path][Head(checker.stack).pos + 1]

AtImport ==
    /\ checker.fault = "none"
    /\ Head(checker.stack).pos < Len(program[Head(checker.stack).path])

\* the innermost activation after its import statement bound the name to type
Bound(activation, path, type) ==
    [activation EXCEPT !.pos = @ + 1, !.locals = TableSet(@, path, type)]

\* NODE_IMPORT of a path the table modules holds: parseFile returns the
\* cached descriptor and the name is bound to it
ImportCached ==
    /\ AtImport
    /\ TableHas(checker.modules, NextImport)
    /\ LET type == TableGet(checker.modules, NextImport)
       IN  checker' = [checker EXCEPT
                          !.stack = <<Bound(Head(@), NextImport, type)>> \o Tail(@),
                          !.imports = Append(@, <<NextImport, type>>)]
    /\ UNCHANGED <<heap, query, program, stmt>>
    /\ UNCHANGED <<schedVars, parseVars>>

\* NODE_IMPORT of a path the table modules does not hold: parseFile makes a
\* new environment, reads and parses the file and calls evaluateTypes on its
\* body.  A path that is twice among the activations is read again by every
\* activation it starts; the model ends the recursion at MaxImportDepth, with
\* the signal of the exhausted stack.
ImportMiss ==
    /\ AtImport
    /\ ~TableHas(checker.modules, NextImport)
    /\ checker' = IF Len(checker.stack) < MaxImportDepth
                  THEN [checker EXCEPT
                           !.stack = <<Activation(NextImport)>> \o @,
                           !.parsed = Append(@, NextImport)]
                  ELSE [checker EXCEPT !.fault = "SIGSEGV"]
    /\ UNCHANGED <<heap, query, program, stmt>>
    /\ UNCHANGED <<schedVars, parseVars>>

\* evaluateTypes(body) of parseFile returns: the file's locals become the
\* fields of a new descriptor, the descriptor is set in modules under the
\* path, and the import statement of the caller binds the name to it
ParseFileReturns ==
    /\ checker.fault = "none"
    /\ Len(checker.stack) > 1
    /\ Head(checker.stack).pos = Len(program[Head(checker.stack).path])
    /\ Len(checker.modules) < Len(ModuleTypes)
    /\ LET done == Head(checker.stack)
           type == ModuleTypes[Len(checker.modules) + 1]
       IN  /\ heap' = Store(heap, type, SimpleType(NULL, done.locals, <<>>))
           /\ checker' = [checker EXCEPT
                             !.modules = TableSet(@, done.path, type),
                             !.stack = <<Bound(checker.stack[2], done.path, type)>>
                                           \o Tail(Tail(@)),
                             !.imports = Append(@, <<done.path, type>>)]
    /\ UNCHANGED <<query, program, stmt>>
    /\ UNCHANGED <<schedVars, parseVars>>

\* evaluateTree(statements) of the main file begins, after makeTypes()
ImportInit ==
    /\ SchedulerAtStart /\ ParserAt(<<>>)
    /\ heap = MakeHeap(NULL, NULL, NULL, NULL, NULL)
    /\ checker = ImportChecker
    /\ query = NoQuery
    /\ program \in [{"main"} \cup Paths -> FileBodies]
    /\ stmt = 0

ImportNext == ImportCached \/ ImportMiss \/ ParseFileReturns

ImportSpec == ImportInit /\ [][ImportNext]_vars

\* C24: the file of each path is read and checked at most once, and every
\* import of a path is bound to one descriptor, whatever the files import.
ParsedOnce ==
    \A i, j \in 1..Len(checker.parsed) :
        checker.parsed[i] = checker.parsed[j] => i = j

SameDescriptor ==
    \A i, j \in 1..Len(checker.imports) :
        checker.imports[i][1] = checker.imports[j][1]
            => checker.imports[i][2] = checker.imports[j][2]

C24_ModuleCache == ParsedOnce /\ SameDescriptor

\* ---------------------------------------------------------------- calls
\* The cases NODE_CALL, NODE_VARIABLE, NODE_EXPRESSION and NODE_VAR of
\* evaluateNode for calls of declared functions with variables as arguments.

\* a FunctorType with generic parameters, as NODE_FUNCTION builds it
GenericFunctorType(genericArgs, arguments, returnType) ==
    [FunctorType(arguments, returnType) EXCEPT !.genericArgs = genericArgs]

\* The descriptors of
\*   fun id<T>(x: T): T, fun pair<T>(x: T, y: T): T,
\*   fun pet<B extends Animal>(x: B, y: B): B, fun num(x: Number): Number
\* with those of the declarations above.
CallHeap ==
    MakeHeap(NULL, NULL, NULL, NULL, NULL) @@
    [B |-> GenericTypeDefinition("Animal"),
     fn_id |-> GenericFunctorType(<<"T">>, <<"T">>, "T"),
     fn_pair |-> GenericFunctorType(<<"T">>, <<"T", "T">>, "T"),
     fn_pet |-> GenericFunctorType(<<"B">>, <<"B", "B">>, "B"),
     fn_num |-> FunctorType(<<"Number">>, "Number")]

\* the locals of the script's environment: the functions, and a variable of
\* each of some types
ScriptLocals ==
    << <<"id", "fn_id">>, <<"pair", "fn_pair">>, <<"pet", "fn_pet">>, <<"num", "fn_num">>,
       <<"n", "Number">>, <<"s", "String">>, <<"dog", "Dog">>, <<"animal", "Animal">>,
       <<"dogs", "List_Dog">>, <<"animals", "List_Animal">> >>

\* The checker with the history of the calls checked: of every argument
\* tested the parameter, the argument's type, the resolutions of the call's
\* environment before and after the test and the verdict; of every call the
\* resolutions at its end and the type returned.  dangling says that currentEnv
\* points to the environment of a call that has returned.
CallChecker ==
    [NewChecker EXCEPT !.locals = ScriptLocals] @@
    [args |-> <<>>, calls |-> <<>>, dangling |-> FALSE]

\* getVariableType(name) for a name that is no builtin module
GetVariableType(ck, name) ==
    IF TableHas(ck.locals, name) THEN [type |-> TableGet(ck.locals, name), ck |-> ck]
    ELSE [type |-> NULL, ck |-> TypeErrorAt(ck, name, "Undefined variable")]

\* the genericResolutions of argEnv after the loop over the callee's genericArgs
RECURSIVE NilResolutions(_, _, _)
NilResolutions(table, genericArgs, i) ==
    IF i > Len(genericArgs) THEN table
    ELSE NilResolutions(TableSet(table, genericArgs[i], "nil"), genericArgs, i + 1)

\* The loop over the arguments of a call: the first argument that is not a
\* subtype of its parameter ends the call with "Type mismatch".
RECURSIVE CallArgumentsLoop(_, _, _, _, _)
CallArgumentsLoop(h, ck, node, functor, i) ==
    IF i > Len(node.arguments) THEN Yes(ck)
    ELSE LET Argument(a) ==
                 LET Tested(r) ==
                         LET noted == [r.ck EXCEPT !.args = Append(@,
                                          [param |-> functor.arguments[i],
                                           type |-> a.type,
                                           before |-> a.ck.resolutions[1],
                                           after |-> r.ck.resolutions[1],
                                           ok |-> r.ok])]
                         IN  IF r.ok THEN CallArgumentsLoop(h, noted, node, functor, i + 1)
                             ELSE No(TypeErrorAt(
                                      IsSubType(h, noted, a.type, functor.arguments[i]).ck,
                                      "(", "Type mismatch"))
                 IN  Tested(IsSubType(h, a.ck, a.type, functor.arguments[i]))
         IN  Argument(GetVariableType(ck, node.arguments[i]))

\* the case NODE_CALL of evaluateNode: the type returned and the checker after
EvaluateCall(h, ck, node) ==
    LET Callee(c) ==
            IF c.type = NULL THEN [type |-> NULL, ck |-> [c.ck EXCEPT !.fault = "SIGSEGV"]]
            ELSE IF h[c.type].kind # "Functor"
            THEN [type |-> NULL, ck |-> TypeErrorAt(c.ck, "(", "Type is not callable")]
            ELSE LET Checked(r) ==
                         IF r.ok
                         THEN [type |-> h[c.type].returnType,
                               ck |-> [LeaveEnvironment(r.ck) EXCEPT !.calls = Append(@,
                                          [callee |-> node.callee,
                                           resolutions |-> r.ck.resolutions[1],
                                           type |-> h[c.type].returnType])]]
                         ELSE [type |-> NULL, ck |-> [r.ck EXCEPT !.dangling = TRUE]]
                 IN  Checked(CallArgumentsLoop(h,
                         [InitTypeEnvironment(c.ck) EXCEPT !.resolutions[1] =
                             NilResolutions(<<>>, h[c.type].genericArgs, 1)],
                         node, h[c.type], 1))
    IN  Callee(GetVariableType(ck, node.callee))

\* the case NODE_VAR of evaluateNode for a declaration with a call as initializer
EvaluateVarCall(h, ck0, node) ==
    LET Annotated(a) ==
            LET Valued(v) ==
                    IF a.type # NULL
                    THEN LET Tested(r) ==
                                 IF ~r.ok
                                 THEN [TypeErrorAt(IsSubType(h, r.ck, v.type, a.type).ck,
                                                   node.name, "Type mismatch in var")
                                          EXCEPT !.locals = TableSet(@, node.name, a.type)]
                                 ELSE [r.ck EXCEPT !.locals = TableSet(@, node.name, a.type)]
                         IN  Tested(IsSubType(h, v.ck, v.type, a.type))
                    ELSE [v.ck EXCEPT !.locals = TableSet(@, node.name, v.type)]
            IN  Valued(EvaluateCall(h, a.ck, node.initializer))
    IN  Annotated(EvaluateAnnotation(h, ck0, node.type))

\* a call, and the statement "<call>;"
CallNode(callee, arguments) == [callee |-> callee, arguments |-> arguments]
ExpressionNode(expression) == [expression |-> expression]
IsExpression(node) == "expression" \in DOMAIN node

\* evaluateNode of a statement: an expression statement or a declaration
EvaluateCallStatement(h, ck, node) ==
    IF IsExpression(node) THEN EvaluateCall(h, ck, node.expression).ck
    ELSE EvaluateVarCall(h, ck, node)

\* the calls with as many arguments as the callee has parameters
ArgumentNames == {"n", "s", "dog", "animal", "dogs", "animals"}

Calls ==
    {CallNode("n", <<>>)}
    \cup {CallNode(f, <<x>>) : f \in {"id", "num"}, x \in ArgumentNames}
    \cup {CallNode(f, <<x, y>>) : f \in {"pair", "pet"}, x \in ArgumentNames,
                                  y \in ArgumentNames}

CallStatements ==
    {ExpressionNode(c) : c \in Calls}
    \cup {VarNode("x", type, c) : type \in {NULL, "Number", "String", AnyType}, c \in Calls}

\* the programs: a statement with a call, and at most one statement after it
CallPrograms ==
    {<<first>> : first \in CallStatements}
    \cup {<<first, second>> : first \in CallStatements,
              second \in {ExpressionNode(CallNode("id", <<"n">>)),
                          VarNode("y", "Number", CallNode("num", <<"n">>))}}

\* One round of evaluateTypes' loop.  When currentEnv points to the
\* environment of a call that has returned, the statement reads and writes
\* memory of a dead stack frame: the process ends there, or it goes on with
\* what the memory still holds.
EvaluateCallRound ==
    /\ checker.fault = "none"
    /\ stmt < Len(program)
    /\ LET Outcomes(ck) ==
               IF ck.fault # "none" THEN {[checker EXCEPT !.fault = ck.fault]}
               ELSE IF checker.dangling
               THEN {ck, [checker EXCEPT !.fault = "SIGSEGV"]}
               ELSE {ck}
       IN  checker' \in Outcomes(EvaluateCallStatement(heap, checker, program[stmt + 1]))
    /\ stmt' = stmt + 1
    /\ UNCHANGED <<heap, query, program>>
    /\ UNCHANGED <<schedVars, parseVars>>

\* evaluateTypes(statements) of a script after the declarations of the
\* functions and of the variables
CallInit ==
    /\ SchedulerAtStart /\ ParserAt(<<>>)
    /\ heap = CallHeap
    /\ checker = CallChecker
    /\ query = NoQuery
    /\ program \in CallPrograms
    /\ stmt = 0

CallNext == EvaluateCallRound

CallSpec == CallInit /\ [][CallNext]_vars

\* C29: after evaluateNode has returned for a statement, currentEnv is the
\* environment it was before, also when an argument of a call has failed the
\* subtype test: no environment a node opened is left on the stack.
C29_ScopesBalanced ==
    checker.fault = "none" => (Len(checker.resolutions) = 1 /\ ~checker.dangling)

\* what isSubType answers outside every call, for two descriptors
Fits(type, super) == IsSubType(heap, NewChecker, type, super).ok

\* C22: within a call, the first argument matched against an open generic
\* parameter binds the parameter to the argument's type; an argument matched
\* against a bound parameter is accepted exactly when it is a subtype of the
\* bound type; an argument that is not a subtype of the parameter's extends
\* bound is rejected and leaves the resolutions as they were.
BindsOnce(a) ==
    (heap[a.param].extends = NULL /\ TableGet(a.before, a.param) = "nil")
        => (a.ok /\ TableGet(a.after, a.param) = a.type)

ConfirmsAfter(a) ==
    TableGet(a.before, a.param) # "nil"
        => (a.ok <=> Fits(a.type, TableGet(a.before, a.param)))

BoundRequired(a) ==
    (heap[a.param].extends # NULL /\ ~Fits(a.type, heap[a.param].extends))
        => (~a.ok /\ a.after = a.before)

C22_BindOnceConfirmAfter ==
    \A k \in 1..Len(checker.args) :
        heap[checker.args[k].param].kind = "GenericDef"
            => /\ BindsOnce(checker.args[k])
               /\ ConfirmsAfter(checker.args[k])
               /\ BoundRequired(checker.args[k])

\* C21: the type of a call of a function that returns its generic parameter
\* is the type the arguments bound the parameter to: a declaration without
\* annotation gets that type, and a declaration with an annotation is accepted
\* exactly when that type is a subtype of the annotation.
GenericCallDeclared ==
    /\ stmt >= 1
    /\ checker.fault = "none"
    /\ ~IsExpression(program[1])
    /\ Len(checker.calls) >= 1
    /\ heap[checker.calls[1].type].kind = "GenericDef"

BoundType == TableGet(checker.calls[1].resolutions, checker.calls[1].type)

DeclarationRejected ==
    \E k \in 1..Len(checker.diags) : checker.diags[k] = <<"x", "Type mismatch in var">>

C21_CallYieldsBoundType ==
    GenericCallDeclared =>
        IF program[1].type = NULL THEN TableGet(checker.locals, "x") = BoundType
        ELSE ~DeclarationRejected <=> Fits(BoundType, program[1].type)

====
